---------------------------- MODULE Spec2Model ----------------------------
(***************************************************************************)
(* Model of the container subsystem of porto (src/src/container.cpp):      *)
(* the subtree lock manager (Lock, Unlock, DowngradeLock, UpgradeLock)     *)
(* and the container state machine driven by Start, Stop, Pause, Resume.   *)
(*                                                                         *)
(* Every action below is one critical section of ContainersMutex, or one   *)
(* step of an operation between two such sections.                         *)
(***************************************************************************)
EXTENDS Integers, FiniteSets, Sequences, TLC

(***************************************************************************)
(* Bounds of the model.                                                    *)
(***************************************************************************)
NumThreads == 3

Threads == 1..NumThreads

(***************************************************************************)
(* The container tree: "/" (ROOT) > a (CT_A) > a/b (CT_B).                 *)
(* NoCT stands for the null Parent pointer of the root container.          *)
(***************************************************************************)
NoCT == 0
ROOT == 1
CT_A == 2
CT_B == 3

CT == {ROOT, CT_A, CT_B}

Parent == [c \in CT |-> IF c = ROOT THEN NoCT ELSE c - 1]

IsRoot(c) == Parent[c] = NoCT

RECURSIVE Ancestors(_)
Ancestors(c) ==
    IF Parent[c] = NoCT THEN {} ELSE {Parent[c]} \cup Ancestors(Parent[c])

IsChildOf(c, a) == a \in Ancestors(c)

Related(c, d) == c = d \/ IsChildOf(c, d) \/ IsChildOf(d, c)

VARIABLES
    State,          \* EContainerState of every container
    Locked,         \* 0 idle, > 0 readers, -1 writer
    PendingWrite,
    SubtreeRead,
    SubtreeWrite,
    thr,            \* per thread: position in the lock protocol, CL->LockedContainer
    ahead,          \* history: the writers a sleeping read request found blocked
    op,             \* per thread: the operation it runs on its locked container
    frozen,         \* freezer cgroup of the container is self-freezing
    isMeta,         \* the container has no command (IsMeta)
    beforePause,    \* history: the State a Paused container was paused from
    StartingChildren,   \* per container: counter kept by SetState
    RunningChildren,    \* per container: counter kept by SetState
    Containers,     \* the registry map: the containers found under their names
    ChildList,      \* per container: its Children list
    Id,             \* per container: its id
    IdMap,          \* ContainerIdMap: the ids that are taken
    runtime,        \* per container: Task (and WaitTask, SeizeTask, TaskVPid),
                    \* ExitStatus, DeathTime, OomEvents, OomKilled
    KvState,        \* per container: the state in its key-value record
    Controllers,    \* per container: Controllers & CGROUP_MEMORY
    NewMemGuarantee,\* per container: its memory guarantee
    KvBroken,       \* whether writes of the key-value storage can fail
    AccessLevel,    \* per container: its EAccessLevel
    PropValue,      \* per container: the values of its dynamic properties
    PropDirty,      \* per container: the properties not yet applied
    Knob,           \* per container: the values in the knobs of its cgroups
    KvProps,        \* per container: the properties in its key-value record
    setting,        \* per thread: the locals of its SetProperty call
    CpuController,  \* per container: Controllers & CGROUP_CPU
    CoreThreads,    \* per CPU: the CPUs of its core (thread_siblings_list)
    CpuState,       \* per container of the CPU tree: its State
    CpuSetType,     \* per container of the CPU tree: the type of its cpu_set
    CpuSetArg,      \* per container of the CPU tree: the count of its cpu_set
    CpusetEnabled,  \* per container of the CPU tree: Controllers & CGROUP_CPUSET
    CpuAffinity,    \* per container of the CPU tree: the CPUs it may run on
    CpuVacant,      \* per container of the CPU tree: its CPUs not reserved
    CpuReserve,     \* per container of the CPU tree: the CPUs reserved for it
    AffinityDirty,  \* per container of the CPU tree: CPU_SET_AFFINITY is dirty
    CpusetCpus,     \* per container of the CPU tree: cpuset.cpus of its cgroup
    CpusetWrites,   \* the SetCpus calls of the last operation on the CPU tree
    now,            \* GetCurrentTimeMs(), in ticks
    EventQueue,     \* the events added to the queue and not yet taken
    Loaded,         \* per container: the fields that Load has read at boot
    Cgroups,        \* per container: its freezer cgroup and wait task at boot
    Synced,         \* per container: the fields after SyncState at boot
    waiter,         \* per waiter: Client and what the wait request asked for
    Waiters,        \* per container: its list of waiters
    WildcardWaiters \* the list of the waiters with wildcards

lockVars == <<Locked, PendingWrite, SubtreeRead, SubtreeWrite>>

countVars == <<StartingChildren, RunningChildren>>

regVars == <<Containers, ChildList, Id, IdMap>>

runVars == <<runtime, KvState>>

\* the fields that only the operations of their own section change
propVars == <<PropValue, PropDirty, Knob, KvProps, setting, CpuController>>

\* the state added to the configuration of a container besides AccessLevel
cpuVars == <<CoreThreads, CpuState, CpuSetType, CpuSetArg, CpusetEnabled,
             CpuAffinity, CpuVacant, CpuReserve, AffinityDirty, CpusetCpus,
             CpusetWrites>>

\* the clock and the queue of the events
eventVars == <<now, EventQueue>>

\* the containers read at boot and what SyncState made of them
syncVars == <<Loaded, Cgroups, Synced>>

\* the waiters and the lists that hold them
waitVars == <<waiter, Waiters, WildcardWaiters>>

restVars == <<propVars, cpuVars, eventVars, syncVars, waitVars>>

\* restVars without the fields of the properties
nonPropVars == <<cpuVars, eventVars, syncVars, waitVars>>

\* restVars without the fields of the CPU tree
nonCpuVars == <<propVars, eventVars, syncVars, waitVars>>

extVars == <<AccessLevel, restVars>>

cfgVars == <<Controllers, NewMemGuarantee, KvBroken, extVars>>

lifeVars == <<op, frozen, isMeta, beforePause, countVars, runVars, cfgVars>>

vars == <<State, Locked, PendingWrite, SubtreeRead, SubtreeWrite, thr, ahead,
          op, frozen, isMeta, beforePause, StartingChildren, RunningChildren,
          Containers, ChildList, Id, IdMap, runtime, KvState, Controllers,
          NewMemGuarantee, KvBroken, extVars>>

(***************************************************************************)
(* EAccessLevel and the access level a container is constructed with       *)
(***************************************************************************)
None == 0
ReadIsolate == 1
ReadOnly == 2
Isolate == 3
SelfIsolate == 4
ChildOnly == 5
Normal == 6
SuperUser == 7
Internal == 8

AccessLevels == None..Internal

\* TContainer::TContainer: the AccessLevel of a container below a parent
\* of level parent
ConstructedAccessLevel(parent) ==
    IF parent = None THEN None
    ELSE IF parent <= ReadOnly THEN ReadOnly
    ELSE Normal

(***************************************************************************)
(* Dynamic properties: the values, PropDirty and the knobs of the cgroups  *)
(***************************************************************************)
\* the first properties of ApplyDynamicProperties, in its order
PropOrder == <<"MEM_GUARANTEE", "MEM_LIMIT", "ANON_LIMIT">>

Props == {PropOrder[i] : i \in 1..Len(PropOrder)}

NoProp == "none"

\* the values of a property; 0 is the value of a property that was never set
MaxLimit == 1

Limits == 0..MaxLimit

\* the locals of SetProperty: prop, oldValue and error
NoSetting == [prop |-> NoProp, oldValue |-> 0, error |-> "none"]

\* the fields of a container after construction, none of its properties set
ConstructedProps ==
    /\ PropValue = [c \in CT |-> [p \in Props |-> 0]]
    /\ PropDirty = [c \in CT |-> [p \in Props |-> FALSE]]
    /\ Knob = [c \in CT |-> [p \in Props |-> 0]]
    /\ KvProps = [c \in CT |-> [p \in Props |-> 0]]
    /\ setting = [t \in Threads |-> NoSetting]
    /\ CpuController = [c \in CT |-> FALSE]

\* outside the section of the properties no container has dynamic properties
NoProps ==
    /\ PropValue = <<>>
    /\ PropDirty = <<>>
    /\ Knob = <<>>
    /\ KvProps = <<>>
    /\ setting = <<>>
    /\ CpuController = <<>>

(***************************************************************************)
(* CPU sets: the tree "/" > a > {a/b, a/c} on four CPUs in two cores       *)
(***************************************************************************)
CpuCT == {"/", "a", "a/b", "a/c"}

CpuParent(c) ==
    CASE c = "a" -> "/"
      [] c \in {"a/b", "a/c"} -> "a"
      [] OTHER -> "none"

\* Childs(): the children in the order of their creation
Childs(c) ==
    CASE c = "/" -> <<"a">>
      [] c = "a" -> <<"a/b", "a/c">>
      [] OTHER -> <<>>

\* Subtree(): the children of a container, in their order, before it
CpuSubtree(c) ==
    CASE c = "/" -> <<"a/b", "a/c", "a", "/">>
      [] c = "a" -> <<"a/b", "a/c", "a">>
      [] OTHER -> <<c>>

\* /sys/devices/system/cpu/online
Online == 0..3

\* the thread_siblings_list files of two cores of two threads each, with
\* adjacent or with interleaved numbers
Topologies ==
    {[cpu \in Online |-> IF cpu \in {0, 1} THEN {0, 1} ELSE {2, 3}],
     [cpu \in Online |-> IF cpu \in {0, 2} THEN {0, 2} ELSE {1, 3}]}

\* ECpuSetType, in the order of DistributeCpus, without Absolute and Node
CpuSetOrder == <<"Cores", "Threads", "Reserve", "Inherit">>

\* the largest count of a cpu_set
MaxArg == 2

\* the fields of the CPU tree after construction and the start of the root
ConstructedCpus ==
    /\ CpuState = [c \in CpuCT |-> IF c = "/" THEN "Meta" ELSE "Stopped"]
    /\ CpusetEnabled = [c \in CpuCT |-> FALSE]
    /\ CpuAffinity = [c \in CpuCT |-> IF c = "/" THEN Online ELSE {}]
    /\ CpuVacant = [c \in CpuCT |-> IF c = "/" THEN Online ELSE {}]
    /\ CpuReserve = [c \in CpuCT |-> {}]
    /\ AffinityDirty = [c \in CpuCT |-> FALSE]
    /\ CpusetCpus = [c \in CpuCT |-> IF c = "/" THEN Online ELSE {}]
    /\ CpusetWrites = {}

\* outside the CPU section there is no CPU tree
NoCpus ==
    /\ CpuState = <<>>
    /\ CpusetEnabled = <<>>
    /\ CpuAffinity = <<>>
    /\ CpuVacant = <<>>
    /\ CpuReserve = <<>>
    /\ AffinityDirty = <<>>
    /\ CpusetCpus = <<>>
    /\ CpusetWrites = <<>>
    /\ CpuSetType = <<>>
    /\ CpuSetArg = <<>>
    /\ CoreThreads = <<>>

\* the clock stands at its first tick and no event is queued
NoEvents ==
    /\ now = 1
    /\ EventQueue = <<>>

\* the fields of a container whose record is not restored yet
NotRestored ==
    [State |-> "Destroyed", Task |-> 0, WaitTask |-> 0, SeizeTask |-> 0,
     IsMeta |-> TRUE, Isolate |-> TRUE]

\* outside the section of the waiters nobody waits
NoWaiters ==
    /\ waiter = <<>>
    /\ Waiters = <<>>
    /\ WildcardWaiters = <<>>

\* outside the section of SyncState no record is loaded
NoSync ==
    /\ Loaded = <<>>
    /\ Cgroups = <<>>
    /\ Synced = <<>>

\* the fields of this section as they are after construction below parents
\* of level Normal
Constructed ==
    /\ AccessLevel = [c \in CT |-> Normal]
    /\ NoProps
    /\ NoCpus
    /\ NoEvents
    /\ NoSync
    /\ NoWaiters

\* the Children list of a container
Children(c) == ChildList[c]

\* mutant: Subtree that holds the container alone
PostOrder_Self(c) == <<c>>

\* TContainer::Subtree: the container and its descendants, children first
RECURSIVE PostOrder(_)
RECURSIVE PostOrderSeq(_)
PostOrder(c) == PostOrderSeq(Children(c)) \o <<c>>

PostOrderSeq(s) ==
    IF s = <<>> THEN <<>> ELSE PostOrder(Head(s)) \o PostOrderSeq(Tail(s))

\* the containers of Subtree()
Subtree(c) == {PostOrder(c)[i] : i \in DOMAIN PostOrder(c)}

IdleThread == [pc |-> "idle", ct |-> NoCT, mode |-> "none", ret |-> "none"]

ModeOf(for_read) == IF for_read THEN "read" ELSE "write"

\* the lock fields of all containers, as one value
LockState ==
    [Locked |-> Locked, PendingWrite |-> PendingWrite,
     SubtreeRead |-> SubtreeRead, SubtreeWrite |-> SubtreeWrite]

SetLockState(ls) ==
    /\ Locked' = ls.Locked
    /\ PendingWrite' = ls.PendingWrite
    /\ SubtreeRead' = ls.SubtreeRead
    /\ SubtreeWrite' = ls.SubtreeWrite

(***************************************************************************)
(* History of sleeping read requests: the threads that were blocked in a   *)
(* write Lock on the same container when the request was issued and are    *)
(* still blocked there.                                                    *)
(***************************************************************************)
WaitingWriters(ct) ==
    {w \in Threads : thr[w].pc = "wait" /\ thr[w].mode = "write" /\ thr[w].ct = ct}

\* the blocked writers that were there when the read request of r was issued
AheadOf(r) ==
    IF thr[r].pc = "idle" THEN WaitingWriters(thr'[r].ct) \ {r} ELSE ahead[r]

TrackAhead ==
    ahead' = [r \in Threads |->
        IF thr'[r].pc = "wait" /\ thr'[r].mode = "read"
          THEN {w \in AheadOf(r) : thr'[w].pc = "wait"}
          ELSE {}]

(***************************************************************************)
(* TContainer::Lock                                                        *)
(***************************************************************************)
\* mutant: the Destroyed check at the head of the loop is missing
LockDestroyed_Missing(ct) == FALSE

LockDestroyed(ct) == State[ct] = "Destroyed"

\* mutant: the walk over the ancestors is missing
LockBusy_NoAncestors(ls, ct, for_read) ==
    IF for_read
      THEN ls.Locked[ct] < 0 \/ ls.PendingWrite[ct] \/ ls.SubtreeWrite[ct] # 0
      ELSE ls.Locked[ct] # 0 \/ ls.SubtreeRead[ct] # 0 \/ ls.SubtreeWrite[ct] # 0

\* mutant: a write request looks only for write-locked ancestors
LockBusy_WriteLockedOnly(ls, ct, for_read) ==
    \/ IF for_read
         THEN ls.Locked[ct] < 0 \/ ls.PendingWrite[ct] \/ ls.SubtreeWrite[ct] # 0
         ELSE ls.Locked[ct] # 0 \/ ls.SubtreeRead[ct] # 0 \/ ls.SubtreeWrite[ct] # 0
    \/ \E a \in Ancestors(ct) : ls.PendingWrite[a] \/ ls.Locked[a] < 0

LockBusy(ls, ct, for_read) ==
    \/ IF for_read
         THEN ls.Locked[ct] < 0 \/ ls.PendingWrite[ct] \/ ls.SubtreeWrite[ct] # 0
         ELSE ls.Locked[ct] # 0 \/ ls.SubtreeRead[ct] # 0 \/ ls.SubtreeWrite[ct] # 0
    \/ \E a \in Ancestors(ct) :
          ls.PendingWrite[a]
            \/ (IF for_read THEN ls.Locked[a] < 0 ELSE ls.Locked[a] # 0)

\* the tail of Lock, after the loop
LockAcquire(ls, ct, for_read) ==
    [Locked |-> [ls.Locked EXCEPT ![ct] = @ + (IF for_read THEN 1 ELSE -1)],
     PendingWrite |-> [ls.PendingWrite EXCEPT ![ct] = FALSE],
     SubtreeRead |-> [a \in CT |->
         IF for_read /\ a \in Ancestors(ct)
           THEN ls.SubtreeRead[a] + 1 ELSE ls.SubtreeRead[a]],
     SubtreeWrite |-> [a \in CT |->
         IF ~for_read /\ a \in Ancestors(ct)
           THEN ls.SubtreeWrite[a] + 1 ELSE ls.SubtreeWrite[a]]]

\* the sleeping branch of the loop
LockSleep(ls, ct, for_read) ==
    [ls EXCEPT !.PendingWrite[ct] = IF for_read THEN @ ELSE TRUE]

\* mutant: PendingWrite is set before the try_lock test
LockTryFail_SetsPending(ls, ct, for_read) ==
    [ls EXCEPT !.PendingWrite[ct] = IF for_read THEN @ ELSE TRUE]

\* the try_lock branch of the loop
LockTryFail(ls, ct, for_read) == ls

\* one pass through the loop of Lock on the lock fields ls, and the tail of
\* Lock when the loop is left; a failed request leaves its error code in ret
\* (and, for a Destroyed container, the container in ct)
LockPass(t, ls, ct, for_read, try_lock) ==
    IF LockDestroyed(ct)
      THEN /\ thr' = [thr EXCEPT ![t] =
                 [IdleThread EXCEPT !.ct = ct, !.ret = "ContainerDoesNotExist"]]
           /\ SetLockState(ls)
    ELSE IF ~LockBusy(ls, ct, for_read)
      THEN /\ thr' = [thr EXCEPT ![t] =
                 [pc |-> "held", ct |-> ct, mode |-> ModeOf(for_read), ret |-> "OK"]]
           /\ SetLockState(LockAcquire(ls, ct, for_read))
    ELSE IF try_lock
      THEN /\ thr' = [thr EXCEPT ![t] = [IdleThread EXCEPT !.ret = "Busy"]]
           /\ SetLockState(LockTryFail(ls, ct, for_read))
      ELSE /\ thr' = [thr EXCEPT ![t] =
                 [pc |-> "wait", ct |-> ct, mode |-> ModeOf(for_read), ret |-> "none"]]
           /\ SetLockState(LockSleep(ls, ct, for_read))

\* a thread calls Lock(lock, for_read, try_lock) on a container it has found;
\* the caller holds ContainersMutex, so the first pass is part of the call
Lock(t) ==
    /\ thr[t].pc = "idle"
    /\ \E ct \in CT, for_read \in BOOLEAN, try_lock \in BOOLEAN :
          LockPass(t, LockState, ct, for_read, try_lock)
    /\ TrackAhead
    /\ UNCHANGED <<State, lifeVars, regVars>>

\* ContainersCV.wait returns and the loop is passed again
LockWake(t) ==
    /\ thr[t].pc = "wait"
    /\ LockPass(t, LockState, thr[t].ct, thr[t].mode = "read", FALSE)
    /\ TrackAhead
    /\ UNCHANGED <<State, lifeVars, regVars>>

(***************************************************************************)
(* TContainer::DowngradeLock, called by the holder of the write lock       *)
(***************************************************************************)
\* mutant: DowngradeLock that leaves the counters of the ancestors alone
DowngradeFields_KeepsCounters(ls, ct) ==
    [ls EXCEPT !.Locked[ct] = 1]

DowngradeFields(ls, ct) ==
    [ls EXCEPT
       !.SubtreeRead = [a \in CT |->
           IF a \in Ancestors(ct) THEN ls.SubtreeRead[a] + 1 ELSE ls.SubtreeRead[a]],
       !.SubtreeWrite = [a \in CT |->
           IF a \in Ancestors(ct) THEN ls.SubtreeWrite[a] - 1 ELSE ls.SubtreeWrite[a]],
       !.Locked[ct] = 1]

DowngradeLock(t) ==
    /\ thr[t].pc = "held"
    /\ thr[t].mode = "write"
    /\ SetLockState(DowngradeFields(LockState, thr[t].ct))
    /\ thr' = [thr EXCEPT ![t].mode = "down"]
    /\ TrackAhead
    /\ UNCHANGED <<State, lifeVars, regVars>>

(***************************************************************************)
(* TContainer::UpgradeLock, called by the thread that downgraded           *)
(***************************************************************************)
UpgradeReady(ls, ct) == ls.Locked[ct] = 1

\* mutant: UpgradeLock that leaves the counters of the ancestors alone
UpgradeFields_KeepsCounters(ls, ct) ==
    [ls EXCEPT !.PendingWrite[ct] = TRUE]

\* mutant: UpgradeLock that does not set PendingWrite
UpgradeFields_NoPending(ls, ct) ==
    [ls EXCEPT
       !.SubtreeRead = [a \in CT |->
           IF a \in Ancestors(ct) THEN ls.SubtreeRead[a] - 1 ELSE ls.SubtreeRead[a]],
       !.SubtreeWrite = [a \in CT |->
           IF a \in Ancestors(ct) THEN ls.SubtreeWrite[a] + 1 ELSE ls.SubtreeWrite[a]]]

\* UpgradeLock up to its wait loop
UpgradeFields(ls, ct) ==
    [ls EXCEPT
       !.PendingWrite[ct] = TRUE,
       !.SubtreeRead = [a \in CT |->
           IF a \in Ancestors(ct) THEN ls.SubtreeRead[a] - 1 ELSE ls.SubtreeRead[a]],
       !.SubtreeWrite = [a \in CT |->
           IF a \in Ancestors(ct) THEN ls.SubtreeWrite[a] + 1 ELSE ls.SubtreeWrite[a]]]

\* UpgradeLock after its wait loop
UpgradeDone(ls, ct) ==
    [ls EXCEPT !.Locked[ct] = -1, !.PendingWrite[ct] = FALSE]

\* the call of UpgradeLock by thread t: the wait loop is passed at once when
\* the caller is the last reader, else the thread sleeps in it
UpgradeCall(t) ==
    LET ct == thr[t].ct
        ls == UpgradeFields(LockState, ct)
    IN  IF UpgradeReady(ls, ct)
          THEN /\ SetLockState(UpgradeDone(ls, ct))
               /\ thr' = [thr EXCEPT ![t].mode = "write"]
          ELSE /\ SetLockState(ls)
               /\ thr' = [thr EXCEPT ![t].pc = "upgrade"]

UpgradeLock(t) ==
    /\ thr[t].pc = "held"
    /\ thr[t].mode = "down"
    /\ UpgradeCall(t)
    /\ TrackAhead
    /\ UNCHANGED <<State, lifeVars, regVars>>

\* the wait loop of UpgradeLock is left
UpgradeWake(t) ==
    /\ thr[t].pc = "upgrade"
    /\ UpgradeReady(LockState, thr[t].ct)
    /\ SetLockState(UpgradeDone(LockState, thr[t].ct))
    /\ thr' = [thr EXCEPT ![t].pc = "held", ![t].mode = "write"]
    /\ TrackAhead
    /\ UNCHANGED <<State, lifeVars, regVars>>

(***************************************************************************)
(* TContainer::Unlock                                                      *)
(***************************************************************************)
UnlockFields(ls, ct) ==
    [ls EXCEPT
       !.SubtreeRead = [a \in CT |->
           IF ls.Locked[ct] > 0 /\ a \in Ancestors(ct)
             THEN ls.SubtreeRead[a] - 1 ELSE ls.SubtreeRead[a]],
       !.SubtreeWrite = [a \in CT |->
           IF ~(ls.Locked[ct] > 0) /\ a \in Ancestors(ct)
             THEN ls.SubtreeWrite[a] - 1 ELSE ls.SubtreeWrite[a]],
       !.Locked[ct] = @ + (IF @ > 0 THEN -1 ELSE 1)]

Unlock(t) ==
    /\ thr[t].pc = "held"
    /\ SetLockState(UnlockFields(LockState, thr[t].ct))
    /\ thr' = [thr EXCEPT ![t] = IdleThread]
    /\ TrackAhead
    /\ UNCHANGED <<State, lifeVars, regVars>>

(***************************************************************************)
(* TContainer::Unregister, the last step of Destroy: run by the holder of  *)
(* the write lock on the container or on an ancestor, children first.      *)
(***************************************************************************)
\* the list s without the container c
\* mutant: Children.remove that removes nothing
Remove_Nothing(s, c) == s

Remove(s, c) == SelectSeq(s, LAMBDA d : d # c)

\* the registry: the map, the Children lists, the ids and the id pool
Registry ==
    [Containers |-> Containers, ChildList |-> ChildList, Id |-> Id,
     IdMap |-> IdMap]

SetRegistry(reg) ==
    /\ Containers' = reg.Containers
    /\ ChildList' = reg.ChildList
    /\ Id' = reg.Id
    /\ IdMap' = reg.IdMap

\* Register: container c with the id it was constructed with
Register(reg, c, id) ==
    [Containers |-> reg.Containers \cup {c},
     ChildList |-> [reg.ChildList EXCEPT ![Parent[c]] = Append(@, c)],
     Id |-> [reg.Id EXCEPT ![c] = id],
     IdMap |-> reg.IdMap]

\* mutant: Unregister that does not put the id back
Unregistered_KeepsId(reg, c) ==
    [Containers |-> reg.Containers \ {c},
     ChildList |-> [p \in CT |->
          IF p = Parent[c] THEN Remove(reg.ChildList[p], c)
                           ELSE reg.ChildList[p]],
     Id |-> [reg.Id EXCEPT ![c] = 0],
     IdMap |-> reg.IdMap]

\* the registry after Unregister of container c; the record of c is dropped
Unregistered(reg, c) ==
    [Containers |-> reg.Containers \ {c},
     ChildList |-> [p \in CT |->
          IF p = Parent[c] THEN Remove(reg.ChildList[p], c)
                           ELSE reg.ChildList[p]],
     Id |-> [reg.Id EXCEPT ![c] = 0],
     IdMap |-> reg.IdMap \ {reg.Id[c]}]

\* Unregister of container c
UnregisterFields(c) == SetRegistry(Unregistered(Registry, c))

Unregister(t) ==
    /\ thr[t].pc = "held"
    /\ thr[t].mode = "write"
    /\ \E c \in Subtree(thr[t].ct) :
          /\ ~IsRoot(c)
          /\ State[c] = "Stopped"
          /\ Children(c) = <<>>
          /\ State' = [State EXCEPT ![c] = "Destroyed"]
          /\ UnregisterFields(c)
          /\ isMeta' = [isMeta EXCEPT ![c] = TRUE]
          /\ UNCHANGED cfgVars
    /\ UNCHANGED <<lockVars, thr, ahead, op, frozen, beforePause, countVars,
                   runVars>>

(***************************************************************************)
(* The lock manager under arbitrary clients                                *)
(***************************************************************************)
\* the fields of a container that Stop clears, as they are after construction
NoRuntime ==
    [Task |-> 0, ExitStatus |-> 0, DeathTime |-> 0, OomEvents |-> 0,
     OomKilled |-> FALSE]

\* ForgetPid: Task, TaskVPid, WaitTask and SeizeTask are one field here
ForgetPid(r) == [r EXCEPT !.Task = 0]

\* the fields after Reap(oomKilled)
Reap(r, oomKilled) ==
    ForgetPid([r EXCEPT !.DeathTime = now, !.OomKilled = @ \/ oomKilled])

\* RecvOomEvents that has read an event: the counter, 1 for any count above 0
RecvOomEvents(r) == [r EXCEPT !.OomEvents = 1]

\* Save of container c after this step: its record takes the State of c,
\* unless writing it fails
\* the outcomes of a write of the key-value storage
SaveResults == IF KvBroken THEN BOOLEAN ELSE {TRUE}

Save(c, saved) ==
    KvState' = IF saved THEN [KvState EXCEPT ![c] = State'[c]] ELSE KvState

NoOp ==
    [name |-> "none", pc |-> "none", ct |-> NoCT, stack |-> <<>>, todo |-> <<>>,
     timeout |-> FALSE, err |-> "none", at |-> NoCT, moved |-> FALSE,
     changed |-> FALSE, oomKilled |-> FALSE]

\* the fields of the containers after construction, outside restVars
LockFields ==
    /\ State = [c \in CT |-> IF c = ROOT THEN "Meta" ELSE "Stopped"]
    /\ Locked = [c \in CT |-> 0]
    /\ PendingWrite = [c \in CT |-> FALSE]
    /\ SubtreeRead = [c \in CT |-> 0]
    /\ SubtreeWrite = [c \in CT |-> 0]
    /\ thr = [t \in Threads |-> IdleThread]
    /\ ahead = [t \in Threads |-> {}]
    /\ op = [t \in Threads |-> NoOp]
    /\ frozen = [c \in CT |-> FALSE]
    /\ isMeta = [c \in CT |-> TRUE]
    /\ beforePause = [c \in CT |-> "none"]
    /\ StartingChildren = [c \in CT |-> 0]
    /\ RunningChildren = [c \in CT |-> 0]
    /\ Containers = CT
    /\ ChildList = [c \in CT |-> IF c = CT_B THEN <<>> ELSE <<c + 1>>]
    /\ Id = [c \in CT |-> c]
    /\ IdMap = CT
    /\ runtime = [c \in CT |-> NoRuntime]
    /\ KvState = State
    /\ Controllers = [c \in CT |-> FALSE]
    /\ NewMemGuarantee = [c \in CT |-> 0]
    /\ KvBroken = FALSE

LockInit == LockFields /\ Constructed

LockNext ==
    \E t \in Threads :
        \/ Lock(t)
        \/ LockWake(t)
        \/ DowngradeLock(t)
        \/ UpgradeLock(t)
        \/ UpgradeWake(t)
        \/ Unlock(t)
        \/ Unregister(t)

LockSpec == LockInit /\ [][LockNext]_vars

(***************************************************************************)
(* Fair scheduling: every holder eventually unlocks, every sleeper that    *)
(* can leave its wait again and again eventually does.                     *)
(***************************************************************************)
\* a sleeping Lock request is decided: granted, or the container is gone
LockLeave(t) == LockWake(t) /\ thr'[t].pc # "wait"

FairLockSpec ==
    /\ LockSpec
    /\ \A t \in Threads :
          /\ SF_vars(Unlock(t))
          /\ SF_vars(LockLeave(t))
          /\ SF_vars(UpgradeWake(t))

(***************************************************************************)
(* Properties of the lock manager                                          *)
(***************************************************************************)
HoldsWrite(t) == thr[t].pc = "held" /\ thr[t].mode = "write"

ReadGranted(r) ==
    /\ thr[r].pc \in {"idle", "wait"}
    /\ thr'[r].pc = "held"
    /\ thr'[r].mode = "read"

\* C1: no two write locks are held at the same time on the same container
\* or on two containers of which one is an ancestor of the other.
C1_OneWriterPerChain ==
    /\ \A t1, t2 \in Threads :
          (t1 # t2 /\ HoldsWrite(t1) /\ HoldsWrite(t2))
              => ~Related(thr[t1].ct, thr[t2].ct)
    /\ \A c1, c2 \in CT :
          (c1 # c2 /\ Locked[c1] = -1 /\ Locked[c2] = -1) => ~Related(c1, c2)
    /\ \A c \in CT :
          Locked[c] = -1 => Cardinality({t \in Threads : thr[t].ct = c /\ HoldsWrite(t)}) = 1

\* a writer holds its lock while another write request on the chain sleeps
C1_Witness ==
    \E t1, t2 \in Threads :
        /\ t1 # t2
        /\ HoldsWrite(t1)
        /\ thr[t2].pc = "wait" /\ thr[t2].mode = "write"
        /\ thr[t1].ct # thr[t2].ct
        /\ Related(thr[t1].ct, thr[t2].ct)

\* a step in which a Lock request of t is decided or put to sleep
LockDecided(t) ==
    /\ thr[t].pc \in {"idle", "wait"}
    /\ thr'[t] # thr[t]

\* the condition of the spec for a write lock
ClaimedWriteFree(ct) ==
    /\ Locked[ct] = 0 /\ SubtreeRead[ct] = 0 /\ SubtreeWrite[ct] = 0
    /\ \A a \in Ancestors(ct) : Locked[a] # -1 /\ ~PendingWrite[a]

\* the condition with read-locked ancestors counted
WriteFree(ct) ==
    /\ Locked[ct] = 0 /\ SubtreeRead[ct] = 0 /\ SubtreeWrite[ct] = 0
    /\ \A a \in Ancestors(ct) : Locked[a] = 0 /\ ~PendingWrite[a]

\* C2 as claimed: a write request on a container is granted exactly when the
\* container is not locked, has no subtree reader or writer and no ancestor is
\* write-locked or has a pending writer; otherwise it sleeps.
C2_Original ==
    [][\A t \in Threads :
          (LockDecided(t) /\ thr'[t].mode = "write")
              => (thr'[t].pc = "held" <=> ClaimedWriteFree(thr'[t].ct))]_vars

\* C2: a write request on a container that is not Destroyed is granted
\* exactly when the container is not locked, has no subtree reader or writer
\* and no ancestor is locked (read or write) or has a pending writer; it is
\* put to sleep exactly when one of these conditions is violated.
C2_WriteGrant ==
    [][\A t \in Threads :
          (LockDecided(t) /\ thr'[t].mode = "write")
              => (thr'[t].pc = "held" <=> WriteFree(thr'[t].ct))]_vars

\* a write request sleeps although only a read lock of an ancestor is in its way
C2_Witness ==
    \E t \in Threads :
        /\ thr[t].pc = "wait" /\ thr[t].mode = "write"
        /\ ClaimedWriteFree(thr[t].ct)
        /\ \E a \in Ancestors(thr[t].ct) : Locked[a] > 0

\* C4: a read request on a container issued while a thread is blocked in a
\* write Lock on that container is not granted before that writer is granted.
C4_WriterPreference ==
    [][\A r \in Threads : ReadGranted(r) => AheadOf(r) = {}]_vars

\* C5: a thread blocked in a write Lock eventually leaves the wait.
C5_WriterNotStarved ==
    \A t \in Threads :
        (thr[t].pc = "wait" /\ thr[t].mode = "write") ~> (thr[t].pc # "wait")

\* C6: a Lock request on a Destroyed container, on its first pass (blocking
\* or try) or when it is woken after the container was destroyed, returns
\* ContainerDoesNotExist and changes no lock field; it is never granted and
\* never put to sleep.
C6_DestroyedFails ==
    [][\A t \in Threads :
          LockDecided(t) =>
              /\ thr'[t].pc \in {"held", "wait"} => State[thr'[t].ct] # "Destroyed"
              /\ (thr[t].pc = "wait" /\ State[thr[t].ct] = "Destroyed")
                    => thr'[t].ret = "ContainerDoesNotExist"
              /\ thr'[t].ret = "ContainerDoesNotExist"
                    => /\ thr'[t].pc = "idle"
                       /\ State[thr'[t].ct] = "Destroyed"
                       /\ UNCHANGED lockVars]_vars

\* a request that failed on a container on which a writer had slept
C6_Witness ==
    \E t \in Threads :
        /\ thr[t].pc = "idle"
        /\ thr[t].ret = "ContainerDoesNotExist"
        /\ PendingWrite[thr[t].ct]

\* C7: a try_lock that finds the container busy returns Busy without sleeping
\* and leaves Locked, PendingWrite, SubtreeRead, SubtreeWrite of every
\* container unchanged.
C7_TryLockBusy ==
    [][\A t \in Threads :
          (LockDecided(t) /\ thr'[t].ret = "Busy")
              => /\ thr[t].pc = "idle"
                 /\ thr'[t].pc = "idle"
                 /\ \E ct \in CT, for_read \in BOOLEAN : LockBusy(LockState, ct, for_read)
                 /\ UNCHANGED lockVars]_vars

\* a try_lock got Busy while a write request sleeps and a lock is held
C7_Witness ==
    \E t \in Threads :
        /\ thr[t].pc = "idle"
        /\ thr[t].ret = "Busy"
        /\ \E c \in CT : PendingWrite[c]
        /\ \E c \in CT : Locked[c] # 0

(***************************************************************************)
(* Life cycle of a container.  A client thread write-locks the container   *)
(* of its request (CL->LockContainer), runs one operation on it and        *)
(* releases the lock; a reader holds a read lock for a while.              *)
(***************************************************************************)
NumClients == 2

Clients == 1..NumClients

Last(s) == s[Len(s)]

Front(s) == SubSeq(s, 1, Len(s) - 1)

\* IsMeta: the container has no command
IsMeta(c) == isMeta[c]

\* freezer cgroup: the container itself is being frozen or is frozen
IsSelfFreezing(c) == frozen[c]

\* freezer cgroup: an ancestor is being frozen or is frozen
IsParentFreezing(c) == \E a \in Ancestors(c) : frozen[a]

IsFrozen(c) == IsSelfFreezing(c) \/ IsParentFreezing(c)

(***************************************************************************)
(* TContainer::SetState: the counters of the ancestors                     *)
(***************************************************************************)
\* mutant: only the counters of the parent are updated
CountedBy_ParentOnly(c) == IF Parent[c] = NoCT THEN {} ELSE {Parent[c]}

\* the containers whose counters SetState of c updates
CountedBy(c) == Ancestors(c)

\* mutant: SetState that counts only the containers that enter the state s
SetStateCount_EnterOnly(prev, next, s) ==
    IF prev # next /\ next = s THEN 1 ELSE 0

\* what a change from prev to next adds to the counter of the state s
SetStateCount(prev, next, s) ==
    IF prev # next /\ (prev = s \/ next = s)
      THEN (IF next = s THEN 1 ELSE -1)
      ELSE 0

RECURSIVE SumOver(_, _)
SumOver(S, f) ==
    IF S = {} THEN 0
    ELSE LET c == CHOOSE x \in S : TRUE IN f[c] + SumOver(S \ {c}, f)

\* the counter cnt of state s after the SetState calls of a step; the calls
\* of one step on one container add up to the change from State to State'
ChildrenCount(cnt, s) ==
    LET add == [c \in CT |-> SetStateCount(State[c], State'[c], s)]
    IN  [p \in CT |-> cnt[p] + SumOver({c \in CT : p \in CountedBy(c)}, add)]

TrackChildren ==
    /\ StartingChildren' = ChildrenCount(StartingChildren, "Starting")
    /\ RunningChildren' = ChildrenCount(RunningChildren, "Running")

\* history update made by every step: where a Paused container came from
TrackPause ==
    beforePause' = [c \in CT |->
        IF State'[c] = "Paused"
          THEN (IF State[c] = "Paused" THEN beforePause[c] ELSE State[c])
          ELSE "none"]

\* the operation of thread t returns with error code err raised at container at
Return(t, name, err, at, moved, changed) ==
    op' = [op EXCEPT ![t] =
        [NoOp EXCEPT !.name = name, !.pc = "ret", !.ct = op[t].ct, !.err = err,
                     !.at = at, !.moved = moved, !.changed = changed]]

\* CL->LockContainer(ct): the lock held by the client, if any, is released
\* and ct is locked for write, waiting for it when busy
LockContainer(t, ct) ==
    LET ls == IF thr[t].pc = "held" THEN UnlockFields(LockState, thr[t].ct)
                                    ELSE LockState
    IN  LockPass(t, ls, ct, FALSE, FALSE)

\* a request arrives: the client locks its target container
Request(t) ==
    /\ thr[t].pc = "idle"
    /\ op[t].pc = "none"
    /\ \E ct \in Containers \ {ROOT} :
          /\ LockContainer(t, ct)
          /\ op' = [op EXCEPT ![t] =
                IF thr'[t].pc = "idle" THEN NoOp
                ELSE [NoOp EXCEPT !.pc = "call", !.ct = ct]]
    /\ TrackAhead
    /\ UNCHANGED <<State, frozen, isMeta, cfgVars, runVars, beforePause, countVars, regVars>>

\* a client sleeping in Lock wakes up; when the container is gone its request
\* (or the Start that was locking an ancestor) fails
ClientWake(t) ==
    /\ thr[t].pc = "wait"
    /\ op[t].name # "Create"
    /\ LockPass(t, LockState, thr[t].ct, thr[t].mode = "read", FALSE)
    /\ TrackAhead
    /\ op' = [op EXCEPT ![t] =
          IF thr'[t].pc # "idle" THEN @
          ELSE IF @.pc = "relock"
            THEN [NoOp EXCEPT !.name = "Start", !.pc = "ret", !.ct = op[t].ct,
                              !.err = thr'[t].ret, !.at = thr[t].ct,
                              !.changed = op[t].changed]
            ELSE NoOp]
    /\ UNCHANGED <<State, frozen, isMeta, cfgVars, runVars, beforePause, countVars, regVars>>

\* a read-only request: the client read-locks a container
ReadRequest(t) ==
    /\ thr[t].pc = "idle"
    /\ op[t].pc = "none"
    /\ \E ct \in Containers :
          /\ LockPass(t, LockState, ct, TRUE, FALSE)
          /\ op' = [op EXCEPT ![t] =
                IF thr'[t].pc = "idle" THEN NoOp
                ELSE [NoOp EXCEPT !.name = "Read", !.pc = "ret", !.ct = ct,
                                  !.err = "OK"]]
    /\ TrackAhead
    /\ UNCHANGED <<State, frozen, isMeta, cfgVars, runVars, beforePause, countVars, regVars>>

\* the request is answered and the lock of the client, if it holds one,
\* released
Release(t) ==
    /\ op[t].pc = "ret"
    /\ thr[t].pc \in {"held", "idle"}
    /\ IF thr[t].pc = "held"
         THEN SetLockState(UnlockFields(LockState, thr[t].ct))
         ELSE UNCHANGED lockVars
    /\ thr' = [thr EXCEPT ![t] = IdleThread]
    /\ op' = [op EXCEPT ![t] = NoOp]
    /\ TrackAhead
    /\ UNCHANGED <<State, frozen, isMeta, cfgVars, runVars, beforePause, countVars, regVars>>

(***************************************************************************)
(* TContainer::Start with StartParents.  op[t].stack holds the containers  *)
(* whose Start is running, innermost last.                                 *)
(***************************************************************************)
\* the inner loop of StartParents: the topmost ancestor that has to be started
RECURSIVE Climb(_, _)
Climb(st, c) ==
    IF Parent[c] # NoCT /\ st[Parent[c]] \notin {"Running", "Meta"}
      THEN Climb(st, Parent[c]) ELSE c

TopTarget(st, c) == Climb(st, Parent[c])

InStart(t, pc, stk, changed) ==
    op' = [op EXCEPT ![t] =
        [NoOp EXCEPT !.name = "Start", !.pc = pc, !.ct = op[t].ct,
                     !.stack = stk, !.changed = changed]]

\* one round of the do-loop of StartParents, up to the call of target->Start()
StartParentsLoop(t, st, stk, changed) ==
    LET target == TopTarget(st, Last(stk))
    IN  /\ LockContainer(t, target)
        /\ TrackAhead
        /\ IF thr'[t].pc = "idle"
             THEN Return(t, "Start", thr'[t].ret, target, FALSE, changed)
             ELSE InStart(t, "relock", Append(stk, target), changed)

\* Start from its entry to the call of PrepareStart
StartBody(t, stk, changed) ==
    LET cur == Last(stk)
    IN  IF State[cur] # "Stopped"
          THEN /\ Return(t, "Start", "InvalidState", cur, FALSE, changed)
               /\ UNCHANGED <<lockVars, thr, ahead>>
        ELSE IF Parent[cur] # NoCT /\ IsFrozen(Parent[cur])
          THEN /\ Return(t, "Start", "InvalidState", cur, FALSE, changed)
               /\ UNCHANGED <<lockVars, thr, ahead>>
        ELSE IF Parent[cur] = NoCT \/ State[Parent[cur]] \in {"Running", "Meta"}
          THEN /\ InStart(t, "prepare", stk, changed)
               /\ UNCHANGED <<lockVars, thr, ahead>>
          ELSE StartParentsLoop(t, State, stk, changed)

StartCall(t) ==
    /\ op[t].pc = "call"
    /\ HoldsWrite(t)
    /\ StartBody(t, <<op[t].ct>>, FALSE)
    /\ UNCHANGED <<State, frozen, isMeta, cfgVars, runVars, beforePause, countVars, regVars>>

\* target->Start() in StartParents, once the target is locked
StartNested(t) ==
    /\ op[t].pc = "relock"
    /\ HoldsWrite(t)
    /\ StartBody(t, op[t].stack, op[t].changed)
    /\ UNCHANGED <<State, frozen, isMeta, cfgVars, runVars, beforePause, countVars, regVars>>

\* PrepareStart and SetState(Starting)
StartPrepare(t) ==
    /\ op[t].pc = "prepare"
    /\ HoldsWrite(t)
    /\ LET cur == Last(op[t].stack)
       IN  \E prepared \in BOOLEAN :
             IF prepared
               THEN /\ State' = [State EXCEPT ![cur] = "Starting"]
                    /\ InStart(t, "resources", op[t].stack, op[t].changed)
               ELSE /\ Return(t, "Start", "Permission", cur, FALSE, op[t].changed)
                    /\ UNCHANGED State
    /\ TrackPause
    /\ TrackChildren
    /\ UNCHANGED <<lockVars, thr, ahead, frozen, isMeta, cfgVars, runVars, regVars>>

\* the width of the unsigned integers that hold amounts of memory
MemBits == 4

\* an amount of memory computed in an unsigned integer
Wrap(x) == x % (2 ^ MemBits)

\* GetTotalMemory(): the memory of the host
TotalMemory == 10

\* config().daemon().memory_guarantee_reserve()
MemoryGuaranteeReserve == 2

RECURSIVE GetTotalMemGuarantee(_, _)
RECURSIVE SumMemGuarantee(_, _)
\* the loop of GetTotalMemGuarantee over Children
SumMemGuarantee(states, children) ==
    IF children = <<>>
      THEN 0
      ELSE Wrap(GetTotalMemGuarantee(states, Head(children)) +
                SumMemGuarantee(states, Tail(children)))

\* the roll-up of the memory guarantees below c; a Stopped container has none
GetTotalMemGuarantee(states, c) ==
    IF states[c] = "Stopped"
      THEN 0
      ELSE LET sum == SumMemGuarantee(states, ChildList[c])
           IN  IF NewMemGuarantee[c] > sum THEN NewMemGuarantee[c] ELSE sum

\* CheckMemGuarantee returns ResourceNotAvailable
CheckMemGuarantee(states) ==
    Wrap(GetTotalMemGuarantee(states, ROOT) + MemoryGuaranteeReserve) > TotalMemory

\* PrepareResources: CheckMemGuarantee, then the preparation of the cgroups
\* and the rest; DowngradeLock when it succeeds
StartResources(t) ==
    /\ op[t].pc = "resources"
    /\ HoldsWrite(t)
    /\ LET cur == Last(op[t].stack)
       IN  \E prepared \in BOOLEAN :
             IF CheckMemGuarantee(State)
               THEN /\ State' = [State EXCEPT ![cur] = "Stopped"]
                    /\ Return(t, "Start", "ResourceNotAvailable", cur, TRUE,
                              op[t].changed)
                    /\ UNCHANGED <<lockVars, thr>>
             ELSE IF prepared
               THEN /\ SetLockState(DowngradeFields(LockState, thr[t].ct))
                    /\ thr' = [thr EXCEPT ![t].mode = "down"]
                    /\ InStart(t, "task", op[t].stack, op[t].changed)
                    /\ UNCHANGED State
               ELSE /\ State' = [State EXCEPT ![cur] = "Stopped"]
                    /\ Return(t, "Start", "ResourcesFailed", cur, TRUE, op[t].changed)
                    /\ UNCHANGED <<lockVars, thr>>
    /\ TrackAhead
    /\ TrackPause
    /\ TrackChildren
    /\ UNCHANGED <<frozen, isMeta, cfgVars, runVars, regVars>>

\* StartTask under the read lock, then the call of UpgradeLock
StartTask(t) ==
    /\ op[t].pc = "task"
    /\ thr[t].pc = "held"
    /\ thr[t].mode = "down"
    /\ \E launched \in BOOLEAN, oom \in BOOLEAN :
          /\ oom => ~launched /\ Controllers[Last(op[t].stack)]
          /\ op' = [op EXCEPT ![t].pc = "launched",
                              ![t].err = IF launched THEN "none" ELSE "TaskFailed"]
          /\ runtime' = [runtime EXCEPT ![Last(op[t].stack)] =
                IF launched THEN [@ EXCEPT !.Task = IF IsMeta(Last(op[t].stack))
                                                     THEN 0 ELSE 1]
                ELSE IF oom THEN RecvOomEvents(@)
                ELSE @]
    /\ UpgradeCall(t)
    /\ TrackAhead
    /\ UNCHANGED <<State, frozen, isMeta, cfgVars, KvState, beforePause, countVars, regVars>>

\* the State a container is left in when its task could not be started
TaskFailedState == "Stopped"

\* the State a container is left in by Reap
ReapState == "Dead"

StartedState(c) == IF IsMeta(c) THEN "Meta" ELSE "Running"

\* Start after UpgradeLock, and the return into StartParents of the caller
StartFinish(t) ==
    /\ op[t].pc = "launched"
    /\ HoldsWrite(t)
    /\ LET stk == op[t].stack
           cur == Last(stk)
       IN  IF op[t].err = "TaskFailed"
             THEN /\ State' = [State EXCEPT ![cur] = TaskFailedState]
                  /\ Return(t, "Start", "TaskFailed", cur, TRUE, op[t].changed)
                  /\ UNCHANGED <<lockVars, thr, ahead, runVars>>
             ELSE \E saved \in SaveResults :
                IF ~saved
                  THEN /\ State' = [State EXCEPT ![cur] = ReapState]
                       /\ runtime' = [runtime EXCEPT ![cur] = Reap(@, FALSE)]
                       /\ \E again \in SaveResults : Save(cur, again)
                       /\ Return(t, "Start", "SaveFailed", cur, TRUE, TRUE)
                       /\ UNCHANGED <<lockVars, thr, ahead>>
                ELSE IF Len(stk) = 1
                  THEN /\ State' = [State EXCEPT ![cur] = StartedState(cur)]
                       /\ Save(cur, TRUE)
                       /\ Return(t, "Start", "OK", cur, TRUE, TRUE)
                       /\ UNCHANGED <<lockVars, thr, ahead, runtime>>
                ELSE IF cur = Parent[Last(Front(stk))]
                  THEN /\ State' = [State EXCEPT ![cur] = StartedState(cur)]
                       /\ Save(cur, TRUE)
                       /\ InStart(t, "prepare", Front(stk), TRUE)
                       /\ UNCHANGED <<lockVars, thr, ahead, runtime>>
                  ELSE /\ State' = [State EXCEPT ![cur] = StartedState(cur)]
                       /\ Save(cur, TRUE)
                       /\ StartParentsLoop(t, State', Front(stk), TRUE)
                       /\ UNCHANGED runtime
    /\ TrackPause
    /\ TrackChildren
    /\ UNCHANGED <<frozen, isMeta, cfgVars, regVars>>

(***************************************************************************)
(* TContainer::Stop(timeout)                                               *)
(***************************************************************************)
InLoop(t, name, pc, todo, timeout) ==
    op' = [op EXCEPT ![t] =
        [NoOp EXCEPT !.name = name, !.pc = pc, !.ct = op[t].ct, !.todo = todo,
                     !.timeout = timeout]]

\* Stop from its entry to the first loop; the lock is downgraded when the
\* caller is going to wait
StopCall(t) ==
    /\ op[t].pc = "call"
    /\ HoldsWrite(t)
    /\ \E timeout \in BOOLEAN :
          IF State[op[t].ct] = "Stopped"
            THEN /\ Return(t, "Stop", "OK", op[t].ct, FALSE, FALSE)
                 /\ UNCHANGED <<lockVars, thr>>
          ELSE IF IsParentFreezing(op[t].ct)
            THEN /\ Return(t, "Stop", "InvalidState", op[t].ct, FALSE, FALSE)
                 /\ UNCHANGED <<lockVars, thr>>
          ELSE /\ InLoop(t, "Stop", "stopping", PostOrder(op[t].ct), timeout)
               /\ IF timeout
                    THEN /\ SetLockState(DowngradeFields(LockState, thr[t].ct))
                         /\ thr' = [thr EXCEPT ![t].mode = "down"]
                    ELSE UNCHANGED <<lockVars, thr>>
    /\ TrackAhead
    /\ UNCHANGED <<State, frozen, isMeta, cfgVars, runVars, beforePause, countVars, regVars>>

\* one round of the first loop: SetState(Stopping), Terminate, Thaw
StopTerminate(t) ==
    /\ op[t].pc = "stopping"
    /\ op[t].todo # <<>>
    /\ thr[t].pc = "held"
    /\ LET ct == Head(op[t].todo)
       IN  IF IsRoot(ct) \/ State[ct] = "Stopped"
             THEN UNCHANGED <<State, frozen>>
             ELSE /\ State' = [State EXCEPT ![ct] = "Stopping"]
                  /\ frozen' = [frozen EXCEPT ![ct] = FALSE]
    /\ op' = [op EXCEPT ![t].todo = Tail(@)]
    /\ TrackPause
    /\ TrackChildren
    /\ UNCHANGED <<lockVars, thr, ahead, isMeta, cfgVars, runVars, regVars>>

\* between the loops: the call of UpgradeLock when the lock was downgraded
StopUpgrade(t) ==
    /\ op[t].pc = "stopping"
    /\ op[t].todo = <<>>
    /\ thr[t].pc = "held"
    /\ InLoop(t, op[t].name, "freeing", PostOrder(op[t].ct), FALSE)
    /\ IF op[t].timeout THEN UpgradeCall(t) ELSE UNCHANGED <<lockVars, thr>>
    /\ TrackAhead
    /\ UNCHANGED <<State, frozen, isMeta, cfgVars, runVars, beforePause, countVars, regVars>>

\* Stop returns OK: to its client, or into Destroy
StopReturn(t) ==
    IF op[t].name = "Destroy"
      THEN InLoop(t, "Destroy", "unregistering", PostOrder(op[t].ct), FALSE)
      ELSE op' = [op EXCEPT ![t] =
              [NoOp EXCEPT !.name = "Stop", !.pc = "ret", !.ct = op[t].ct,
                           !.err = "OK", !.at = op[t].ct]]

\* the container that the second loop of Stop on self saves after it has
\* stopped ct
SavedByStop(self, ct) == self

\* one round of the second loop: FreeResources, SetState(Stopped), Save;
\* Stop returns when Save fails and when the loop is over
StopFree(t) ==
    /\ op[t].pc = "freeing"
    /\ op[t].todo # <<>>
    /\ HoldsWrite(t)
    /\ LET ct == Head(op[t].todo)
           rest == Tail(op[t].todo)
       IN  IF State[ct] = "Stopped"
             THEN /\ UNCHANGED <<State, runVars>>
                  /\ IF rest = <<>>
                       THEN StopReturn(t)
                       ELSE op' = [op EXCEPT ![t].todo = rest]
             ELSE /\ State' = [State EXCEPT ![ct] = "Stopped"]
                  /\ runtime' = [runtime EXCEPT ![ct] = NoRuntime]
                  /\ \E saved \in SaveResults :
                       /\ Save(SavedByStop(op[t].ct, ct), saved)
                       /\ IF ~saved
                            THEN Return(t, op[t].name, "SaveFailed", ct, FALSE, FALSE)
                          ELSE IF rest = <<>>
                            THEN StopReturn(t)
                            ELSE op' = [op EXCEPT ![t].todo = rest]
    /\ TrackPause
    /\ TrackChildren
    /\ UNCHANGED <<lockVars, thr, ahead, frozen, isMeta, cfgVars, regVars>>

(***************************************************************************)
(* TContainer::Pause and TContainer::Resume                                *)
(***************************************************************************)
\* Pause up to its loop: the freezer cgroup of the container is frozen
PauseCall(t) ==
    /\ op[t].pc = "call"
    /\ HoldsWrite(t)
    /\ IF State[op[t].ct] \notin {"Running", "Meta"}
         THEN /\ Return(t, "Pause", "InvalidState", op[t].ct, FALSE, FALSE)
              /\ UNCHANGED frozen
         ELSE /\ InLoop(t, "Pause", "pausing", PostOrder(op[t].ct), FALSE)
              /\ frozen' = [frozen EXCEPT ![op[t].ct] = TRUE]
    /\ UNCHANGED <<State, lockVars, thr, ahead, isMeta, cfgVars, runVars, beforePause, countVars, regVars>>

\* one round of the loop of Pause
PauseStep(t) ==
    /\ op[t].pc = "pausing"
    /\ HoldsWrite(t)
    /\ LET ct == Head(op[t].todo)
           rest == Tail(op[t].todo)
       IN  /\ State' = [State EXCEPT ![ct] =
                 IF @ \in {"Running", "Meta"} THEN "Paused" ELSE @]
           /\ IF rest = <<>>
                THEN Return(t, "Pause", "OK", op[t].ct, FALSE, FALSE)
                ELSE op' = [op EXCEPT ![t].todo = rest]
           /\ IF State[ct] \in {"Running", "Meta"}
                THEN \E saved \in SaveResults : Save(ct, saved)
                ELSE UNCHANGED KvState
    /\ TrackPause
    /\ TrackChildren
    /\ UNCHANGED <<lockVars, thr, ahead, frozen, isMeta, cfgVars, runtime, regVars>>

\* Resume up to its loop: the freezer cgroup of the container is thawed
ResumeCall(t) ==
    /\ op[t].pc = "call"
    /\ HoldsWrite(t)
    /\ IF IsParentFreezing(op[t].ct) \/ ~IsSelfFreezing(op[t].ct)
         THEN /\ Return(t, "Resume", "InvalidState", op[t].ct, FALSE, FALSE)
              /\ UNCHANGED frozen
         ELSE /\ InLoop(t, "Resume", "resuming", PostOrder(op[t].ct), FALSE)
              /\ frozen' = [frozen EXCEPT ![op[t].ct] = FALSE]
    /\ UNCHANGED <<State, lockVars, thr, ahead, isMeta, cfgVars, runVars, beforePause, countVars, regVars>>

\* the State Resume on container self gives to a Paused container of its subtree
ResumeState(self, ct) == IF IsMeta(self) THEN "Meta" ELSE "Running"

\* one round of the loop of Resume
ResumeStep(t) ==
    /\ op[t].pc = "resuming"
    /\ HoldsWrite(t)
    /\ LET ct == Head(op[t].todo)
           rest == Tail(op[t].todo)
       IN  /\ frozen' = [frozen EXCEPT ![ct] = FALSE]
           /\ State' = [State EXCEPT ![ct] =
                 IF @ = "Paused" THEN ResumeState(op[t].ct, ct) ELSE @]
           /\ IF rest = <<>>
                THEN Return(t, "Resume", "OK", op[t].ct, FALSE, FALSE)
                ELSE op' = [op EXCEPT ![t].todo = rest]
           /\ \E saved \in SaveResults : Save(ct, saved)
    /\ TrackPause
    /\ TrackChildren
    /\ UNCHANGED <<lockVars, thr, ahead, isMeta, cfgVars, runtime, regVars>>

(***************************************************************************)
(* TContainer::Exit, run by the event handler under the write lock         *)
(***************************************************************************)
\* the wait statuses that Exit is called with: killed by SIGKILL, and
\* exited with code 128 + SIGKILL, the way portoinit reports a fatal signal
SIGKILL == 9

SIGRTMIN == 34

Statuses == {SIGKILL, (128 + SIGKILL) * 256}

\* WaitTask.Pid != Task.Pid: the tasks run under portoinit
ViaInit == {TRUE}

WIFEXITED(status) == status % 128 = 0

WEXITSTATUS(status) == (status \div 256) % 256

\* mutant: Exit that records nothing
ExitStatusOf_None(status, viaInit) == 0

\* the status that Exit records; viaInit: WaitTask is not Task
ExitStatusOf(status, viaInit) ==
    IF /\ viaInit
       /\ WIFEXITED(status)
       /\ WEXITSTATUS(status) > 128
       /\ WEXITSTATUS(status) < 128 + SIGRTMIN * 2
      THEN WEXITSTATUS(status) -
              (IF WEXITSTATUS(status) > 128 + SIGRTMIN THEN SIGRTMIN ELSE 128)
      ELSE status

\* Exit(status, oomKilled) up to its loop, called by Event: for the exit of
\* the task of the container, or with SIGKILL for an event of its OOM
\* monitor; received: RecvOomEvents has read an event, fatal: the memory
\* cgroup reports OOM events
ExitCall(t) ==
    /\ op[t].pc = "call"
    /\ HoldsWrite(t)
    /\ \E status \in Statuses, oomKilled \in BOOLEAN :
          /\ IF oomKilled
               THEN Controllers[op[t].ct] /\ status = SIGKILL
               ELSE runtime[op[t].ct].Task # 0
          /\ IF State[op[t].ct] = "Stopped"
               THEN /\ Return(t, "Exit", "OK", op[t].ct, FALSE, FALSE)
                    /\ UNCHANGED runtime
               ELSE \E viaInit \in ViaInit, received \in BOOLEAN, fatal \in BOOLEAN :
                      /\ oomKilled => ~received
                      /\ (oomKilled \/ received) => ~fatal
                      /\ (received \/ fatal) => Controllers[op[t].ct]
                      /\ op' = [op EXCEPT ![t] =
                            [NoOp EXCEPT !.name = "Exit", !.pc = "reaping",
                                         !.ct = op[t].ct,
                                         !.todo = PostOrder(op[t].ct),
                                         !.oomKilled = oomKilled \/ received \/ fatal]]
                      /\ runtime' = [runtime EXCEPT ![op[t].ct] =
                            [(IF received THEN RecvOomEvents(@) ELSE @)
                                EXCEPT !.ExitStatus = ExitStatusOf(status, viaInit)]]
    /\ UNCHANGED <<State, lockVars, thr, ahead, frozen, isMeta, cfgVars, KvState,
                   beforePause, countVars, regVars>>

\* one round of the loop of Exit: Reap
ExitStep(t) ==
    /\ op[t].pc = "reaping"
    /\ HoldsWrite(t)
    /\ LET ct == Head(op[t].todo)
           rest == Tail(op[t].todo)
       IN  /\ State' = [State EXCEPT ![ct] =
                 IF @ \notin {"Stopped", "Dead"} THEN ReapState ELSE @]
           /\ IF State[ct] \notin {"Stopped", "Dead"}
                THEN /\ runtime' = [runtime EXCEPT ![ct] = Reap(@, op[t].oomKilled)]
                     /\ \E saved \in SaveResults : Save(ct, saved)
                ELSE UNCHANGED runVars
           /\ IF rest = <<>>
                THEN Return(t, "Exit", "OK", op[t].ct, FALSE, FALSE)
                ELSE op' = [op EXCEPT ![t].todo = rest]
    /\ TrackPause
    /\ TrackChildren
    /\ UNCHANGED <<lockVars, thr, ahead, frozen, isMeta, cfgVars, regVars>>

(***************************************************************************)
(* TContainer::Create                                                      *)
(***************************************************************************)
\* ids of ContainerIdMap(1, CONTAINER_ID_MAX)
MaxId == 3

\* config().container().max_total()
MaxTotal == 1

\* the bonus of the superuser (NR_SUPERUSER_CONTAINERS)
SuperBonus == 1

NR_SERVICE_CONTAINERS == 1

CONTAINER_LEVEL_MAX == 16

Level(c) == Cardinality(Ancestors(c))

\* mutant: a pool that forgets the ids in use
FreeIds_All == 1..MaxId

FreeIds == (1..MaxId) \ IdMap

\* the id that stands for any id when Create fails before ContainerIdMap.Get
FirstId == IF FreeIds = {} THEN 0 ELSE CHOOSE id \in FreeIds : TRUE

\* mutant: the failed Create keeps its id
CreateFailIds_Leak(ids, id) == ids

\* the id pool after the err: exit of Create, which puts the id back
CreateFailIds(ids, id) == ids \ {id}

\* the checks of Create under the read lock of the parent, in their order,
\* up to Save; id is the id taken from the pool, 0 when there is none
CreateError(name, id, allowed, super, saved) ==
    IF ~allowed THEN "Permission"
    ELSE IF name \in Containers THEN "ContainerAlreadyExists"
    ELSE IF Cardinality(Containers) >=
              MaxTotal + (IF super THEN SuperBonus ELSE 0) + NR_SERVICE_CONTAINERS
      THEN "ResourceNotAvailable"
    ELSE IF id = 0 THEN "ResourceNotAvailable"
    ELSE IF ~saved THEN "SaveFailed"
    ELSE "OK"

\* a container record of the model is free for a new container when no
\* thread refers to the Destroyed container that had the name before
SlotFree(name) ==
    \A t \in Threads :
        /\ thr[t].ct # name
        /\ op[t].ct # name
        /\ \A i \in DOMAIN op[t].stack : op[t].stack[i] # name
        /\ \A i \in DOMAIN op[t].todo : op[t].todo[i] # name

\* Create returns the error err without any change
CreateFail(t, name, err) ==
    /\ thr' = [thr EXCEPT ![t] = IdleThread]
    /\ op' = [op EXCEPT ![t] =
          [NoOp EXCEPT !.name = "Create", !.pc = "ret", !.err = err]]
    /\ UNCHANGED <<State, lockVars, frozen, isMeta, cfgVars, runVars, regVars>>

\* Create from the granted read lock of the parent to parent->Unlock
CreateBody(t, name) ==
    LET parent == Parent[name]
        locked == LockAcquire(LockState, parent, TRUE)
    IN  \E allowed \in BOOLEAN, super \in BOOLEAN, saved \in SaveResults,
           id \in IF FreeIds = {} THEN {0} ELSE FreeIds :
          LET err == CreateError(name, id, allowed, super, saved)
              taken == IF id # 0 /\ err \in {"SaveFailed", "OK"}
                         THEN IdMap \cup {id} ELSE IdMap
          IN  /\ err = "OK" => SlotFree(name)
              /\ err \notin {"SaveFailed", "OK"} => id = FirstId
              /\ thr' = [thr EXCEPT ![t] = IdleThread]
              /\ op' = [op EXCEPT ![t] =
                    [NoOp EXCEPT !.name = "Create", !.pc = "ret", !.err = err]]
              /\ IF err = "OK"
                   THEN /\ SetRegistry(
                              Register([Registry EXCEPT !.IdMap = taken], name, id))
                        /\ State' = [State EXCEPT ![name] = "Stopped"]
                        /\ frozen' = [frozen EXCEPT ![name] = FALSE]
                        /\ isMeta' = [isMeta EXCEPT ![name] = TRUE]
                        /\ AccessLevel' = [AccessLevel EXCEPT ![name] =
                              ConstructedAccessLevel(AccessLevel[Parent[name]])]
                        /\ UNCHANGED <<Controllers, NewMemGuarantee, KvBroken, restVars>>
                        /\ runtime' = [runtime EXCEPT ![name] = NoRuntime]
                        /\ Save(name, TRUE)
                        /\ SetLockState(
                              [UnlockFields(locked, parent) EXCEPT
                                  !.PendingWrite[name] = FALSE])
                   ELSE /\ IdMap' = IF err = "SaveFailed"
                                      THEN CreateFailIds(taken, id) ELSE taken
                        /\ SetLockState(UnlockFields(locked, parent))
                        /\ UNCHANGED <<Containers, ChildList, Id, State, frozen,
                                       isMeta, cfgVars, runVars>>

\* parent->LockRead(lock) and what follows it
CreateLocked(t, name) ==
    LET parent == Parent[name]
    IN  IF LockDestroyed(parent)
          THEN CreateFail(t, name, "ContainerDoesNotExist")
        ELSE IF LockBusy(LockState, parent, TRUE)
          THEN /\ thr' = [thr EXCEPT ![t] =
                     [pc |-> "wait", ct |-> parent, mode |-> "read", ret |-> "none"]]
               /\ op' = [op EXCEPT ![t] =
                     [NoOp EXCEPT !.name = "Create", !.pc = "create", !.ct = name]]
               /\ UNCHANGED <<State, lockVars, frozen, isMeta, cfgVars, runVars, regVars>>
          ELSE CreateBody(t, name)

\* a client calls Create(name); valid is the verdict of ValidName
CreateCall(t) ==
    /\ thr[t].pc = "idle"
    /\ op[t].pc = "none"
    /\ \E name \in CT \ {ROOT}, valid \in BOOLEAN :
          IF ~valid
            THEN CreateFail(t, name, "InvalidValue")
          ELSE IF Parent[name] \notin Containers
            THEN CreateFail(t, name, "ContainerDoesNotExist")
          ELSE IF Level(Parent[name]) = CONTAINER_LEVEL_MAX
            THEN CreateFail(t, name, "InvalidValue")
            ELSE CreateLocked(t, name)
    /\ TrackAhead
    /\ TrackPause
    /\ UNCHANGED countVars

\* Create wakes up in LockRead
CreateWake(t) ==
    /\ thr[t].pc = "wait"
    /\ op[t].name = "Create"
    /\ CreateLocked(t, op[t].ct)
    /\ TrackAhead
    /\ TrackPause
    /\ UNCHANGED countVars

(***************************************************************************)
(* TContainer::Destroy, called with the write lock of the container        *)
(***************************************************************************)
\* Destroy up to its loop: Stop(0) when the container is not Stopped
DestroyEntry(t) ==
    IF State[op[t].ct] = "Stopped"
      THEN InLoop(t, "Destroy", "unregistering", PostOrder(op[t].ct), FALSE)
    ELSE IF IsParentFreezing(op[t].ct)
      THEN Return(t, "Destroy", "InvalidState", op[t].ct, FALSE, FALSE)
      ELSE InLoop(t, "Destroy", "stopping", PostOrder(op[t].ct), FALSE)

\* a client calls Destroy
DestroyCall(t) ==
    /\ op[t].pc = "call"
    /\ HoldsWrite(t)
    /\ DestroyEntry(t)
    /\ UNCHANGED <<State, lockVars, thr, ahead, frozen, isMeta, cfgVars, runVars, beforePause,
                   countVars, regVars>>

\* Destroy of one container of the subtree, children first: Stop(0) when it
\* is not Stopped, then Unregister
DestroyStep(t) ==
    /\ op[t].pc = "unregistering"
    /\ HoldsWrite(t)
    /\ LET ct == Head(op[t].todo)
           rest == Tail(op[t].todo)
       IN  IF State[ct] # "Stopped" /\ IsParentFreezing(ct)
             THEN /\ Return(t, "Destroy", "InvalidState", ct, FALSE, FALSE)
                  /\ UNCHANGED <<State, frozen, isMeta, cfgVars, runVars, regVars>>
             ELSE \E saved \in SaveResults :
                IF State[ct] # "Stopped" /\ ~saved
                  THEN /\ State' = [State EXCEPT ![ct] = "Stopped"]
                       /\ frozen' = [frozen EXCEPT ![ct] = FALSE]
                       /\ runtime' = [runtime EXCEPT ![ct] = NoRuntime]
                       /\ Return(t, "Destroy", "SaveFailed", ct, FALSE, FALSE)
                       /\ UNCHANGED <<isMeta, cfgVars, KvState, regVars>>
                  ELSE /\ State' = [State EXCEPT ![ct] = "Destroyed"]
                       /\ frozen' = [frozen EXCEPT ![ct] = FALSE]
                       /\ isMeta' = [isMeta EXCEPT ![ct] = TRUE]
                       /\ UNCHANGED cfgVars
                       /\ runtime' = [runtime EXCEPT ![ct] = NoRuntime]
                       /\ KvState' = [KvState EXCEPT ![ct] = "none"]
                       /\ UnregisterFields(ct)
                       /\ IF rest = <<>>
                            THEN Return(t, "Destroy", "OK", op[t].ct, FALSE, FALSE)
                            ELSE op' = [op EXCEPT ![t].todo = rest]
    /\ TrackPause
    /\ StartingChildren' =
          [p \in CT |-> StartingChildren[p] +
              SumOver({c \in CT : p \in CountedBy(c)},
                      [c \in CT |-> SetStateCount(State[c],
                          IF State'[c] = "Destroyed" THEN "Stopped" ELSE State'[c],
                          "Starting")])]
    /\ RunningChildren' =
          [p \in CT |-> RunningChildren[p] +
              SumOver({c \in CT : p \in CountedBy(c)},
                      [c \in CT |-> SetStateCount(State[c],
                          IF State'[c] = "Destroyed" THEN "Stopped" ELSE State'[c],
                          "Running")])]
    /\ UNCHANGED <<lockVars, thr, ahead>>

(***************************************************************************)
(* The container subsystem under client requests                           *)
(***************************************************************************)
LifeInit ==
    /\ State = [c \in CT |-> IF c = ROOT THEN "Meta" ELSE "Stopped"]
    /\ Locked = [c \in CT |-> 0]
    /\ PendingWrite = [c \in CT |-> FALSE]
    /\ SubtreeRead = [c \in CT |-> 0]
    /\ SubtreeWrite = [c \in CT |-> 0]
    /\ thr = [t \in Threads |-> IdleThread]
    /\ ahead = [t \in Threads |-> {}]
    /\ op = [t \in Threads |-> NoOp]
    /\ frozen = [c \in CT |-> FALSE]
    /\ isMeta \in {m \in [CT -> BOOLEAN] : m[ROOT]}
    /\ beforePause = [c \in CT |-> "none"]
    /\ StartingChildren = [c \in CT |-> 0]
    /\ RunningChildren = [c \in CT |-> 0]
    /\ Containers = CT
    /\ ChildList = [c \in CT |-> IF c = CT_B THEN <<>> ELSE <<c + 1>>]
    /\ Id = [c \in CT |-> c]
    /\ IdMap = CT
    /\ runtime = [c \in CT |-> NoRuntime]
    /\ KvState = State
    /\ Controllers = [c \in CT |-> FALSE]
    /\ NewMemGuarantee = [c \in CT |-> 0]
    /\ KvBroken = FALSE
    /\ Constructed

LifeNext ==
    \E t \in Clients :
        \/ Request(t)
        \/ ReadRequest(t)
        \/ ClientWake(t)
        \/ UpgradeWake(t)
        \/ Release(t)
        \/ StartCall(t)
        \/ StartNested(t)
        \/ StartPrepare(t)
        \/ StartResources(t)
        \/ StartTask(t)
        \/ StartFinish(t)
        \/ StopCall(t)
        \/ StopTerminate(t)
        \/ StopUpgrade(t)
        \/ StopFree(t)
        \/ PauseCall(t)
        \/ PauseStep(t)
        \/ ResumeCall(t)
        \/ ResumeStep(t)
        \/ ExitCall(t)
        \/ ExitStep(t)

LifeSpec == LifeInit /\ [][LifeNext]_vars

(***************************************************************************)
(* The lifecycle of containers with memory controller, memory guarantees   *)
(* and a key-value storage that can fail, under the requests of workers    *)
(* and the events of the tasks.                                            *)
(***************************************************************************)
\* the threads that serve the requests and the events
Workers == {1, 2}

\* the memory guarantees given to containers: none, the memory of the host,
\* and the largest amount that the reserve can be added to
Guarantees == {0, TotalMemory, 2 ^ MemBits - MemoryGuaranteeReserve}

RunInit ==
    /\ State = [c \in CT |-> IF c = ROOT THEN "Meta" ELSE "Stopped"]
    /\ Locked = [c \in CT |-> 0]
    /\ PendingWrite = [c \in CT |-> FALSE]
    /\ SubtreeRead = [c \in CT |-> 0]
    /\ SubtreeWrite = [c \in CT |-> 0]
    /\ thr = [t \in Threads |-> IdleThread]
    /\ ahead = [t \in Threads |-> {}]
    /\ op = [t \in Threads |-> NoOp]
    /\ frozen = [c \in CT |-> FALSE]
    /\ isMeta \in {m \in [CT -> BOOLEAN] : m[ROOT]}
    /\ beforePause = [c \in CT |-> "none"]
    /\ StartingChildren = [c \in CT |-> 0]
    /\ RunningChildren = [c \in CT |-> 0]
    /\ Containers = CT
    /\ ChildList = [c \in CT |-> IF c = CT_B THEN <<>> ELSE <<c + 1>>]
    /\ Id = [c \in CT |-> c]
    /\ IdMap = CT
    /\ runtime = [c \in CT |-> NoRuntime]
    /\ KvState = State
    /\ Controllers \in {m \in [CT -> BOOLEAN] : ~m[ROOT]}
    /\ NewMemGuarantee = [c \in CT |-> 0]
    /\ KvBroken \in BOOLEAN
    /\ Constructed

RunNext ==
    \E t \in Workers :
        \/ Request(t)
        \/ ClientWake(t)
        \/ Release(t)
        \/ StartCall(t)
        \/ StartNested(t)
        \/ StartPrepare(t)
        \/ StartResources(t)
        \/ StartTask(t)
        \/ StartFinish(t)
        \/ StopCall(t)
        \/ StopTerminate(t)
        \/ StopUpgrade(t)
        \/ StopFree(t)
        \/ ExitCall(t)
        \/ ExitStep(t)

RunSpec == RunInit /\ [][RunNext]_vars

\* the same operations on containers that were given memory guarantees,
\* without memory controller and with a key-value storage that works
MemInit ==
    /\ State = [c \in CT |-> IF c = ROOT THEN "Meta" ELSE "Stopped"]
    /\ Locked = [c \in CT |-> 0]
    /\ PendingWrite = [c \in CT |-> FALSE]
    /\ SubtreeRead = [c \in CT |-> 0]
    /\ SubtreeWrite = [c \in CT |-> 0]
    /\ thr = [t \in Threads |-> IdleThread]
    /\ ahead = [t \in Threads |-> {}]
    /\ op = [t \in Threads |-> NoOp]
    /\ frozen = [c \in CT |-> FALSE]
    /\ isMeta \in {m \in [CT -> BOOLEAN] : m[ROOT]}
    /\ beforePause = [c \in CT |-> "none"]
    /\ StartingChildren = [c \in CT |-> 0]
    /\ RunningChildren = [c \in CT |-> 0]
    /\ Containers = CT
    /\ ChildList = [c \in CT |-> IF c = CT_B THEN <<>> ELSE <<c + 1>>]
    /\ Id = [c \in CT |-> c]
    /\ IdMap = CT
    /\ runtime = [c \in CT |-> NoRuntime]
    /\ KvState = State
    /\ Controllers = [c \in CT |-> FALSE]
    /\ NewMemGuarantee \in {g \in [CT -> Guarantees] : g[ROOT] = 0}
    /\ KvBroken = FALSE
    /\ Constructed

MemSpec == MemInit /\ [][RunNext]_vars

(***************************************************************************)
(* The registry under client requests: Create and Destroy of containers    *)
(* that are started and stopped in between.                                *)
(***************************************************************************)
\* the persisted containers read at boot: name, raw id, persisted state and
\* whether Load and the steps after it succeed
KVRecord ==
    [name : CT \ {ROOT}, id : 2..MaxId,
     state : {"Stopped", "Meta", "Dead"}, ok : BOOLEAN]

\* the records of a boot in the order of their restore
KVStores ==
    {<<>>} \cup {<<r>> : r \in KVRecord}
           \cup {<<r, q>> : r \in KVRecord, q \in KVRecord}

\* SyncState: the state of a restored container after the look at its parent
SyncState(parent, state) ==
    CASE parent = "Stopped" -> "Stopped"
      [] parent = "Dead" -> (IF state = "Stopped" THEN "Stopped" ELSE "Dead")
      [] OTHER -> state

\* the registry at boot before any Restore: only the root container
BootRegistry ==
    [Containers |-> {ROOT},
     ChildList |-> [c \in CT |-> <<>>],
     Id |-> [c \in CT |-> IF c = ROOT THEN 1 ELSE 0],
     IdMap |-> {1},
     State |-> [c \in CT |-> IF c = ROOT THEN "Meta" ELSE "Destroyed"],
     isMeta |-> [c \in CT |-> TRUE],
     runtime |-> [c \in CT |-> NoRuntime],
     KvState |-> [c \in CT |-> IF c = ROOT THEN "Meta" ELSE "none"],
     Running |-> [c \in CT |-> 0]]

\* Restore of one record: the checks under the registry mutex, GetAt,
\* Register, then Load and SyncState, or the err: exit that unregisters
Restore(reg, kv) ==
    LET ct == kv.name
        synced == SyncState(reg.State[Parent[ct]], kv.state)
    IN  IF \/ ct \in reg.Containers
           \/ Parent[ct] \notin reg.Containers
           \/ kv.id \in reg.IdMap
           \/ ~kv.ok
          THEN reg
          ELSE [Containers |-> reg.Containers \cup {ct},
                ChildList |-> [reg.ChildList EXCEPT
                                  ![Parent[ct]] = Append(@, ct)],
                Id |-> [reg.Id EXCEPT ![ct] = kv.id],
                IdMap |-> reg.IdMap \cup {kv.id},
                State |-> [reg.State EXCEPT ![ct] = synced],
                isMeta |-> [reg.isMeta EXCEPT ![ct] = kv.state # "Running"],
                runtime |-> [reg.runtime EXCEPT ![ct] =
                    CASE synced = "Running" -> [NoRuntime EXCEPT !.Task = 1]
                      [] synced = "Dead" ->
                           [Reap(NoRuntime, FALSE) EXCEPT !.ExitStatus = SIGKILL]
                      [] OTHER -> NoRuntime],
                KvState |-> [reg.KvState EXCEPT ![ct] = synced],
                Running |-> [p \in CT |-> reg.Running[p] +
                    (IF p \in CountedBy(ct)
                       THEN SetStateCount("Stopped", synced, "Running")
                       ELSE 0)]]

RECURSIVE RestoreAll(_, _)
RestoreAll(reg, kvs) ==
    IF kvs = <<>> THEN reg ELSE RestoreAll(Restore(reg, Head(kvs)), Tail(kvs))

\* the state after the restore at boot: the root and the containers that
\* Restore registered from the persisted records, no request running
Booted(kvs) ==
    /\ LET reg == RestoreAll(BootRegistry, kvs)
       IN  /\ State = reg.State
           /\ isMeta = reg.isMeta
           /\ runtime = reg.runtime
           /\ KvState = reg.KvState
           /\ RunningChildren = reg.Running
           /\ Containers = reg.Containers
           /\ ChildList = reg.ChildList
           /\ Id = reg.Id
           /\ IdMap = reg.IdMap
    /\ Controllers = [c \in CT |-> FALSE]
    /\ NewMemGuarantee = [c \in CT |-> 0]
    /\ KvBroken = TRUE
    /\ Locked = [c \in CT |-> 0]
    /\ PendingWrite = [c \in CT |-> FALSE]
    /\ SubtreeRead = [c \in CT |-> 0]
    /\ SubtreeWrite = [c \in CT |-> 0]
    /\ thr = [t \in Threads |-> IdleThread]
    /\ ahead = [t \in Threads |-> {}]
    /\ op = [t \in Threads |-> NoOp]
    /\ frozen = [c \in CT |-> FALSE]
    /\ beforePause = [c \in CT |-> "none"]
    /\ StartingChildren = [c \in CT |-> 0]

RegInit == Constructed /\ (\E kvs \in KVStores : Booted(kvs))

RegNext ==
    \E t \in Clients :
        \/ Request(t)
        \/ ClientWake(t)
        \/ Release(t)
        \/ CreateCall(t)
        \/ CreateWake(t)
        \/ DestroyCall(t)
        \/ DestroyStep(t)
        \/ StopTerminate(t)
        \/ StopUpgrade(t)
        \/ StopFree(t)

RegSpec == RegInit /\ [][RegNext]_vars

\* the state after the restore of container a, started without command,
\* with the access level that its record holds
AccessInit ==
    /\ NoEvents
    /\ NoSync
    /\ NoWaiters
    /\ Booted(<<[name |-> CT_A, id |-> 2, state |-> "Meta", ok |-> TRUE]>>)
    /\ \E level \in AccessLevels :
          AccessLevel = [c \in CT |-> IF c = CT_A THEN level ELSE Normal]
    /\ NoProps
    /\ NoCpus

AccessSpec == AccessInit /\ [][RegNext]_vars

(***************************************************************************)
(* Properties of the life cycle                                            *)
(***************************************************************************)
\* C3: every change of the State of a container is made while the changing
\* thread holds a write lock on the container or on one of its ancestors;
\* no State is changed under a read lock only.
C3_StateUnderWriteLock ==
    [][\A c \in CT :
          State'[c] # State[c] =>
              \E t \in Threads :
                  /\ HoldsWrite(t)
                  /\ thr[t].ct \in {c} \cup Ancestors(c)]_vars

StartFailed(t) ==
    /\ op[t].name = "Start"
    /\ op[t].pc = "ret"
    /\ op[t].err # "OK"

\* C8: when Start returns an error after it has moved the container to
\* Starting (resources could not be prepared, the task could not be launched,
\* the state could not be saved after the launch), the container is Stopped.
C8_FailedStartStopped ==
    \A t \in Clients :
        (StartFailed(t) /\ op[t].moved) => State[op[t].at] = "Stopped"

\* C9: a Start of X that fails validation (X is not Stopped, or PrepareStart
\* of X fails) has changed the State of no container, ancestors included.
C9_FailedValidationNoChange ==
    \A t \in Clients :
        (/\ StartFailed(t)
         /\ op[t].err \in {"InvalidState", "Permission"}
         /\ op[t].at = op[t].ct)
            => ~op[t].changed

\* C10: Resume gives every container of the subtree that Pause moved to
\* Paused the State it was paused from (Running or Meta).
C10_ResumeRestores ==
    [][\A c \in CT :
          (State[c] = "Paused" /\ State'[c] \in {"Running", "Meta"})
              => State'[c] = beforePause[c]]_vars

\* the descendants of p that are in state s
DescendantsIn(p, s) == {c \in CT : p \in Ancestors(c) /\ State[c] = s}

\* the children of p that are in state s
ChildrenIn(p, s) == {c \in CT : Parent[c] = p /\ State[c] = s}

\* C11 as claimed: StartingChildren and RunningChildren of every container
\* equal the number of its children in state Starting and Running.
C11_Original ==
    \A p \in CT :
        /\ StartingChildren[p] = Cardinality(ChildrenIn(p, "Starting"))
        /\ RunningChildren[p] = Cardinality(ChildrenIn(p, "Running"))

\* C11: StartingChildren and RunningChildren of every container equal the
\* number of its descendants (children, grandchildren, ...) that are in state
\* Starting and Running.
C11_CountersMatchDescendants ==
    \A p \in CT :
        /\ StartingChildren[p] = Cardinality(DescendantsIn(p, "Starting"))
        /\ RunningChildren[p] = Cardinality(DescendantsIn(p, "Running"))

\* a container counts a Running child and a Starting grandchild
C11_Witness ==
    \E p \in CT :
        /\ RunningChildren[p] = 1
        /\ StartingChildren[p] = 1
        /\ ChildrenIn(p, "Starting") = {}

(***************************************************************************)
(* Properties of the registry                                              *)
(***************************************************************************)
InChildren(p, c) == \E i \in DOMAIN ChildList[p] : ChildList[p][i] = c

\* a Destroyed container has left the registry and the tree
DestroyedUnlinked(c) ==
    /\ c \notin Containers
    /\ ~InChildren(Parent[c], c)
    /\ ChildList[c] = <<>>

\* C12: a Destroyed container is absent from the registry and from its
\* parent's Children, has no Children and holds no lock (Locked = 0), also
\* between the end of Destroy and the Unlock of the caller.
C12_DestroyedHoldsNoLock ==
    \A c \in CT \ {ROOT} :
        State[c] = "Destroyed" => DestroyedUnlinked(c) /\ Locked[c] = 0

\* the operation of thread t has returned err
Returned(t, name, err) ==
    op[t].name = name /\ op[t].pc = "ret" /\ op[t].err = err

C15_CreateDestroyRoundTrip ==
    [][\A n \in CT \ {ROOT} :
          (n \notin Containers /\ n \in Containers') =>
              LET back == Unregistered(Registry', n)
              IN  /\ State'[n] = "Stopped"
                  /\ ChildList'[n] = <<>>
                  /\ back.Containers = Containers
                  /\ back.ChildList = ChildList
                  /\ back.IdMap = IdMap]_vars

\* Create("a") has returned OK with the root as the only other container
C15_Witness ==
    \E t \in Clients :
        /\ Returned(t, "Create", "OK")
        /\ Containers = {ROOT, CT_A}

\* the step in which a Create call of thread t returns an error
CreateFails(t) ==
    /\ op'[t] # op[t]
    /\ op'[t].name = "Create"
    /\ op'[t].pc = "ret"
    /\ op'[t].err # "OK"

C17_StopClearsSubtree ==
    \A t \in Threads :
        Returned(t, "Stop", "OK") =>
            \A c \in Subtree(op[t].ct) :
                State[c] = "Stopped" /\ runtime[c] = NoRuntime

\* C18: Stop persists every container that it stops: a round of the second
\* loop of Stop that moves a container to Stopped and does not fail leaves
\* the key-value record of that container with the state Stopped.
C18_StopPersistsEachNode ==
    [][\A t \in Threads, c \in CT :
          (/\ op[t].pc = "freeing"
           /\ op[t].name = "Stop"
           /\ State[c] # "Stopped"
           /\ State'[c] = "Stopped"
           /\ op'[t].err # "SaveFailed") => KvState'[c] = State'[c]]_vars

\* thread t takes the step of Exit up to its loop
ExitCalled(t) == op[t].pc = "call" /\ op'[t].name = "Exit"

\* thread t takes one round of the loop of Exit
ExitRound(t) == op[t].pc = "reaping" /\ op'[t] # op[t]

\* C19: Exit on a container that is not Stopped records the exit status (a
\* kill by SIGKILL here) and moves every container of the subtree that is
\* neither Stopped nor Dead to Dead with its pid cleared, the descendants of
\* a container before the container; Exit on a Stopped container changes
\* nothing.
C19_ExitReapsSubtree ==
    [][\A t \in Threads :
          /\ (ExitCalled(t) /\ State[op[t].ct] = "Stopped") =>
                /\ UNCHANGED <<State, runVars, countVars>>
                /\ op'[t].pc = "ret"
          /\ (ExitCalled(t) /\ State[op[t].ct] # "Stopped") =>
                /\ runtime'[op[t].ct].ExitStatus = SIGKILL
                /\ op'[t].todo = PostOrder(op[t].ct)
                /\ UNCHANGED State
          /\ ExitRound(t) =>
                LET c == Head(op[t].todo)
                IN  /\ \A d \in Subtree(c) \ {c} : State[d] \in {"Stopped", "Dead"}
                    /\ \A d \in CT \ {c} : State'[d] = State[d]
                    /\ IF State[c] \in {"Stopped", "Dead"}
                         THEN State'[c] = State[c] /\ runtime'[c] = runtime[c]
                         ELSE State'[c] = "Dead" /\ runtime'[c].Task = 0]_vars

\* Exit of a running container with a running child has returned: both are
\* Dead without pid and the exit status is recorded
C19_Witness ==
    \E t \in Threads :
        /\ Returned(t, "Exit", "OK")
        /\ op[t].ct = CT_A
        /\ State[CT_A] = "Dead" /\ State[CT_B] = "Dead"
        /\ runtime[CT_A].ExitStatus = SIGKILL
        /\ runtime[CT_B].DeathTime # 0
        /\ runtime[CT_A].Task = 0 /\ runtime[CT_B].Task = 0

RECURSIVE RollUp(_)
\* the roll-up of the memory guarantees as claimed: per container the
\* maximum of its own guarantee and the sum of the roll-ups of its children
\* that are not Stopped
RollUp(c) ==
    LET below == SumOver({d \in Containers \ {ROOT} :
                             Parent[d] = c /\ State[d] # "Stopped"},
                         [d \in CT |-> RollUp(d)])
    IN  IF NewMemGuarantee[c] > below THEN NewMemGuarantee[c] ELSE below

\* C20: whenever Start comes to check the memory guarantees and the roll-up
\* of the root, which counts the starting container, plus the reserve
\* exceeds the memory of the host, Start fails with ResourceNotAvailable
\* and leaves the container Stopped.
C20_OvercommitFailsStart ==
    [][\A t \in Threads :
          (/\ op[t].pc = "resources"
           /\ op'[t] # op[t]
           /\ RollUp(ROOT) + MemoryGuaranteeReserve > TotalMemory) =>
                /\ op'[t].pc = "ret"
                /\ op'[t].err = "ResourceNotAvailable"
                /\ State'[Last(op[t].stack)] = "Stopped"]_vars

(***************************************************************************)
(* Properties of the counters of the subtree locks                         *)
(***************************************************************************)
\* the strict descendants of c
Descendants(c) == {d \in CT : c \in Ancestors(d)}

\* the read locks held on d: Locked counts the readers
ReadLocksOn(d) == IF Locked[d] > 0 THEN Locked[d] ELSE 0

\* the write locks held on d
WriteLocksOn(d) == IF Locked[d] < 0 THEN 1 ELSE 0

\* the threads that wait inside UpgradeLock on d, their lock still held for
\* read
UpgradersOn(d) ==
    Cardinality({t \in Threads : thr[t].pc = "upgrade" /\ thr[t].ct = d})

\* C30 as claimed: SubtreeRead and SubtreeWrite of every container equal the
\* numbers of read locks and of write locks held on its strict descendants,
\* also while a thread waits inside UpgradeLock.
C30_Original ==
    \A c \in CT :
        /\ SubtreeRead[c] =
              SumOver(Descendants(c), [d \in CT |-> ReadLocksOn(d)])
        /\ SubtreeWrite[c] =
              SumOver(Descendants(c), [d \in CT |-> WriteLocksOn(d)])

\* C30: SubtreeRead and SubtreeWrite of every container equal the numbers of
\* read locks and of write locks held on its strict descendants, where the
\* lock of a thread that waits inside UpgradeLock, still held for read, is
\* counted as a write lock.
C30_SubtreeCounters ==
    \A c \in CT :
        /\ SubtreeRead[c] =
              SumOver(Descendants(c),
                      [d \in CT |-> ReadLocksOn(d) - UpgradersOn(d)])
        /\ SubtreeWrite[c] =
              SumOver(Descendants(c),
                      [d \in CT |-> WriteLocksOn(d) + UpgradersOn(d)])

\* a thread waits inside UpgradeLock on a container below the root that
\* another reader holds
C30_Witness ==
    \E t \in Threads :
        /\ thr[t].pc = "upgrade"
        /\ thr[t].ct # ROOT
        /\ Locked[thr[t].ct] > 1

(***************************************************************************)
(* Properties of the construction of containers                            *)
(***************************************************************************)
\* C28: a container that Create has constructed has the minimum of the
\* AccessLevel of its parent and Normal, whatever the level of the parent.
C28_ChildAccessLevel ==
    [][\A c \in CT \ {ROOT} :
          (c \notin Containers /\ c \in Containers') =>
              AccessLevel'[c] =
                  (IF AccessLevel[Parent[c]] < Normal
                     THEN AccessLevel[Parent[c]] ELSE Normal)]_vars


(***************************************************************************)
(* TContainer::SetState: the waiters it notifies                           *)
(***************************************************************************)
\* mutant: SetState that also notifies on entry into Stopping
SetStateNotifies_Stopping(c, prev, next, running, states) ==
    IF prev = next
      THEN {}
      ELSE (IF prev = "Running" \/ next = "Running"
              THEN {p \in CountedBy(c) : running[p] = 0 /\ states[p] = "Meta"}
              ELSE {})
           \cup (IF next \notin {"Running", "Meta", "Starting"}
                   THEN {c} ELSE {})

\* the containers whose NotifyWaiters is called by SetState(next) of container
\* c in state prev; running holds the RunningChildren counters after the
\* update of the call
SetStateNotifies(c, prev, next, running, states) ==
    IF prev = next
      THEN {}
      ELSE (IF prev = "Running" \/ next = "Running"
              THEN {p \in CountedBy(c) : running[p] = 0 /\ states[p] = "Meta"}
              ELSE {})
           \cup (IF next \notin {"Running", "Meta", "Starting", "Stopping"}
                   THEN {c} ELSE {})

\* State = Destroyed is assigned by the constructor and by Unregister, every
\* other change of State is made by SetState
BySetState(c) == State[c] # "Destroyed" /\ State'[c] # "Destroyed"

\* the containers whose waiters are notified by the SetState calls of a step
NotifyWaiters ==
    UNION {SetStateNotifies(c, State[c], State'[c], RunningChildren', State) :
              c \in {d \in CT : BySetState(d)}}

\* C29: a step notifies the waiters of container c exactly if c itself
\* changes to Stopped, Dead or Paused, or c is Meta and a change of a
\* descendant into or out of Running leaves RunningChildren of c at zero; a
\* step that leaves every State alone notifies nobody
C29_NotifiedExactly ==
    [][/\ \A c \in CT :
            c \in NotifyWaiters <=>
              \/ /\ BySetState(c)
                 /\ State'[c] # State[c]
                 /\ State'[c] \in {"Stopped", "Dead", "Paused"}
              \/ /\ State[c] = "Meta"
                 /\ RunningChildren'[c] = 0
                 /\ \E d \in Descendants(c) :
                       /\ BySetState(d)
                       /\ State'[d] # State[d]
                       /\ "Running" \in {State[d], State'[d]}
       /\ State' = State => NotifyWaiters = {}]_vars

\* a Meta container whose only running descendant has died
C29_Witness ==
    /\ State[CT_A] = "Meta"
    /\ State[CT_B] = "Dead"
    /\ RunningChildren[CT_A] = 0


(***************************************************************************)
(* TContainer::ApplyDynamicProperties and TContainer::SetProperty          *)
(***************************************************************************)
HasResources(c) == State[c] \notin {"Stopped", "Destroyed"}

\* TestClearPropDirty(p): the bit of p is cleared (and its old value returned)
TestClearPropDirty(dirty, p) == [dirty EXCEPT ![p] = FALSE]

\* SetProp(p): the bit of p is set
SetProp(dirty, p) == [dirty EXCEPT ![p] = TRUE]

\* ApplyDynamicProperties from the i-th property on: each dirty property has
\* its bit cleared and is then written to its knob; the write of a property
\* in rejected fails and ends the function with that error
RECURSIVE ApplyDynamicProperties(_, _, _, _, _)
ApplyDynamicProperties(i, dirty, knob, value, rejected) ==
    IF i > Len(PropOrder)
      THEN [dirty |-> dirty, knob |-> knob, error |-> "OK", failed |-> NoProp]
      ELSE LET p == PropOrder[i]
           IN  IF ~dirty[p]
                 THEN ApplyDynamicProperties(i + 1, dirty, knob, value, rejected)
               ELSE IF p \in rejected
                 THEN [dirty |-> TestClearPropDirty(dirty, p), knob |-> knob,
                       error |-> "WriteFailed", failed |-> p]
               ELSE ApplyDynamicProperties(i + 1, TestClearPropDirty(dirty, p),
                                           [knob EXCEPT ![p] = value[p]],
                                           value, rejected)

\* mutant: the rewind of SetProperty that leaves the new value in place
Rewound_NewValue(value, p, oldValue) == value

\* (void)prop->Set(oldValue) of SetProperty
Rewound(value, p, oldValue) == [value EXCEPT ![p] = oldValue]

\* SetProperty up to the return of ApplyDynamicProperties: prop->Get of the
\* old value, prop->Set of the new one and, with live resources, the writes
\* to the kernel
SetPropertyCall(t) ==
    /\ op[t].pc = "call"
    /\ HoldsWrite(t)
    /\ LET ct == op[t].ct
       IN  \E p \in Props, v \in Limits, accepted \in BOOLEAN,
              rejected \in SUBSET Props :
             IF ct = ROOT
               THEN /\ Return(t, "SetProperty", "Permission", ct, FALSE, FALSE)
                    /\ UNCHANGED propVars
             ELSE IF ~accepted
               THEN /\ Return(t, "SetProperty", "InvalidValue", ct, FALSE, FALSE)
                    /\ UNCHANGED propVars
             ELSE LET value == [PropValue[ct] EXCEPT ![p] = v]
                      dirty == SetProp(PropDirty[ct], p)
                      applied == IF HasResources(ct)
                                   THEN ApplyDynamicProperties(1, dirty, Knob[ct],
                                                               value, rejected)
                                   ELSE [dirty |-> dirty, knob |-> Knob[ct],
                                         error |-> "OK", failed |-> NoProp]
                  IN  /\ rejected \subseteq {q \in Props : dirty[q]}
                      /\ HasResources(ct) \/ rejected = {}
                      /\ PropValue' = [PropValue EXCEPT ![ct] = value]
                      /\ PropDirty' = [PropDirty EXCEPT ![ct] = applied.dirty]
                      /\ Knob' = [Knob EXCEPT ![ct] = applied.knob]
                      /\ setting' = [setting EXCEPT ![t] =
                            [prop |-> p, oldValue |-> PropValue[ct][p],
                             error |-> applied.error]]
                      /\ op' = [op EXCEPT ![t].name = "SetProperty",
                                          ![t].pc = "applied"]
                      /\ UNCHANGED KvProps
    /\ UNCHANGED <<State, lockVars, thr, ahead, frozen, isMeta, beforePause,
                   countVars, runVars, regVars, Controllers, NewMemGuarantee,
                   KvBroken, AccessLevel, nonPropVars, CpuController>>

\* the rest of SetProperty: the rewind after a failed write, or Save
SetPropertyReturn(t) ==
    /\ op[t].pc = "applied"
    /\ HoldsWrite(t)
    /\ LET ct == op[t].ct
           p == setting[t].prop
       IN  IF setting[t].error # "OK"
             THEN /\ PropValue' = [PropValue EXCEPT
                        ![ct] = Rewound(@, p, setting[t].oldValue)]
                  /\ PropDirty' = [PropDirty EXCEPT
                        ![ct] = TestClearPropDirty(@, p)]
                  /\ Return(t, "SetProperty", setting[t].error, ct, FALSE, TRUE)
                  /\ UNCHANGED KvProps
             ELSE \E saved \in SaveResults :
                  /\ KvProps' = IF saved
                                  THEN [KvProps EXCEPT ![ct] = PropValue[ct]]
                                  ELSE KvProps
                  /\ Return(t, "SetProperty",
                            IF saved THEN "OK" ELSE "SaveFailed", ct, FALSE, TRUE)
                  /\ UNCHANGED <<PropValue, PropDirty>>
    /\ setting' = [setting EXCEPT ![t] = NoSetting]
    /\ UNCHANGED <<State, lockVars, thr, ahead, frozen, isMeta, beforePause,
                   countVars, runVars, regVars, Controllers, NewMemGuarantee,
                   KvBroken, AccessLevel, nonPropVars, Knob, CpuController>>

\* a booted daemon with the container a, Stopped or live, under SetProperty
\* requests
PropInit ==
    /\ AccessLevel = [c \in CT |-> Normal]
    /\ ConstructedProps
    /\ NoCpus
    /\ NoEvents
    /\ NoSync
    /\ NoWaiters
    /\ \E state \in {"Stopped", "Meta"} :
          Booted(<<[name |-> CT_A, id |-> 2, state |-> state, ok |-> TRUE]>>)

PropNext ==
    \E t \in Workers :
        \/ Request(t)
        \/ ClientWake(t)
        \/ Release(t)
        \/ SetPropertyCall(t)
        \/ SetPropertyReturn(t)

PropSpec == PropInit /\ [][PropNext]_vars


\* C21: in every state of a container with live resources a cleared dirty
\* bit means that the knob of the property holds the configured value; so
\* when ApplyDynamicProperties has returned with a failed write, the bit of
\* the property whose write failed is still set.
C21_ClearedBitMeansWritten ==
    \A c \in Containers \ {ROOT}, p \in Props :
        (HasResources(c) /\ ~PropDirty[c][p]) => Knob[c][p] = PropValue[c][p]

\* C22: a SetProperty whose ApplyDynamicProperties failed returns that error
\* with the value the property had before the call, the dirty bit of the
\* property cleared and the key-value record as it was.
C22_FailedSetPropertyRewinds ==
    [][\A t \in Threads :
          LET ct == op[t].ct
          IN  /\ (op[t].pc = "call" /\ op'[t].pc = "applied") =>
                    /\ setting'[t].oldValue = PropValue[ct][setting'[t].prop]
                    /\ setting'[t].error # "OK" => HasResources(ct)
              /\ (op[t].pc = "applied" /\ setting[t].error # "OK"
                                       /\ op'[t].pc # "applied") =>
                    /\ op'[t].pc = "ret"
                    /\ op'[t].err = setting[t].error
                    /\ PropValue'[ct][setting[t].prop] = setting[t].oldValue
                    /\ ~PropDirty'[ct][setting[t].prop]
                    /\ KvProps' = KvProps
                    /\ KvState' = KvState]_vars

\* a SetProperty has failed on a write to the kernel and restored a value
\* that an earlier SetProperty had set and saved
C22_Witness ==
    \E t \in Threads :
        /\ op[t].name = "SetProperty"
        /\ op[t].pc = "ret"
        /\ op[t].err = "WriteFailed"
        /\ HasResources(op[t].ct)
        /\ \E p \in Props : PropValue[op[t].ct][p] # 0
        /\ KvProps[op[t].ct] = PropValue[op[t].ct]
        /\ Knob[op[t].ct] = PropValue[op[t].ct]


(***************************************************************************)
(* TContainer::ReserveCpus and TContainer::DistributeCpus                  *)
(***************************************************************************)
\* Op applied to the value of v, which is computed once
With(v, Op(_)) == CHOOSE result \in {Op(x) : x \in {v}} : TRUE

\* one round of the loop of ReserveCpus, at a vacant CPU
ReserveRound(r, cpu) ==
    IF CoreThreads[cpu] \subseteq r.vacant
      THEN IF r.nr_cores > 0
             THEN [r EXCEPT !.nr_cores = @ - 1,
                            !.cores = @ \cup {cpu},
                            !.threads = @ \cup CoreThreads[cpu],
                            !.vacant = @ \ CoreThreads[cpu]]
           ELSE IF ~r.try_thread
             THEN [r EXCEPT !.nr_threads = @ - 1,
                            !.threads = @ \cup {cpu},
                            !.vacant = @ \ {cpu},
                            !.try_thread = TRUE]
           ELSE r
    ELSE IF r.nr_threads > 0
      THEN [r EXCEPT !.nr_threads = @ - 1,
                     !.threads = @ \cup {cpu},
                     !.vacant = @ \ {cpu}]
    ELSE r

\* the loop over the CPUs from cpu on, left when both counts are zero
RECURSIVE ReserveLoop(_, _)
ReserveLoop(r, cpu) ==
    IF cpu \notin Online THEN r
    ELSE IF cpu \notin r.vacant THEN ReserveLoop(r, cpu + 1)
    ELSE With(ReserveRound(r, cpu), LAMBDA next :
              IF next.nr_threads = 0 /\ next.nr_cores = 0
                THEN next
                ELSE ReserveLoop(next, cpu + 1))

\* the loop and its repetitions from the label again
RECURSIVE ReservePasses(_)
ReservePasses(r) ==
    With(ReserveLoop(r, 0), LAMBDA done :
        IF done.try_thread /\ done.nr_threads > 0
          THEN ReservePasses([done EXCEPT !.try_thread = FALSE])
          ELSE done)

\* ReserveCpus of a container with the vacant CPUs vacant: the new vacant
\* CPUs, the bitmaps threads and cores, and the error
ReserveCpus(vacant, nr_threads, nr_cores, isRoot) ==
    With(ReservePasses([vacant |-> vacant, nr_threads |-> nr_threads,
                        nr_cores |-> nr_cores, threads |-> {},
                        cores |-> {}, try_thread |-> TRUE]),
         LAMBDA done :
            IF done.nr_threads > 0 \/ done.nr_cores > 0
               \/ (isRoot /\ done.vacant = {})
              THEN [error |-> "ResourceNotAvailable",
                    vacant |-> done.vacant \cup done.threads,
                    threads |-> {}, cores |-> {}]
              ELSE [error |-> "OK", vacant |-> done.vacant,
                    threads |-> done.threads, cores |-> done.cores])

\* the bitmaps of the CPU tree, as DistributeCpus reads and writes them
CpuMaps ==
    [Affinity |-> CpuAffinity, Vacant |-> CpuVacant, Reserve |-> CpuReserve,
     error |-> "OK", Type |-> CpuSetType, Arg |-> CpuSetArg,
     Enabled |-> CpusetEnabled, Dirty |-> AffinityDirty,
     Cpus |-> CpusetCpus, Writes |-> {}]

\* mutant: a child with cpu_set cores gets every thread of its cores
CoresAffinity_Threads(reserved) == reserved.threads

\* the affinity of a child with cpu_set cores: the bitmap cores of ReserveCpus
CoresAffinity(reserved) == reserved.cores

\* the affinity of the child ct of parent after ReserveCpus gave reserved
PlacedAffinity(m, parent, ct, reserved) ==
    CASE m.Type[ct] = "Cores" -> CoresAffinity(reserved)
      [] m.Type[ct] = "Threads" -> reserved.cores \cup reserved.threads
      [] m.Type[ct] = "Reserve" -> reserved.cores \cup m.Affinity[parent]
      [] OTHER -> m.Vacant[parent]

\* the body of the loops of DistributeCpus for the child ct of parent
Place(m, parent, ct) ==
    With(CASE m.Type[ct] = "Cores" ->
                ReserveCpus(m.Vacant[parent], 0, m.Arg[ct], parent = "/")
           [] m.Type[ct] \in {"Threads", "Reserve"} ->
                ReserveCpus(m.Vacant[parent], m.Arg[ct], 0, parent = "/")
           [] OTHER ->
                [error |-> "OK", vacant |-> m.Vacant[parent],
                 threads |-> {}, cores |-> {}],
         LAMBDA reserved :
            LET affinity == PlacedAffinity(m, parent, ct, reserved)
                cleared == [m EXCEPT !.Vacant[ct] = {},
                                     !.Reserve[ct] = reserved.threads,
                                     !.Vacant[parent] = reserved.vacant]
            IN  IF reserved.error # "OK"
                  THEN [cleared EXCEPT !.error = reserved.error]
                ELSE IF affinity = {} \/ ~(affinity \subseteq m.Affinity[parent])
                  THEN [cleared EXCEPT !.error = "ResourceNotAvailable"]
                ELSE [cleared EXCEPT !.Affinity[ct] = affinity,
                                     !.Vacant[ct] = affinity,
                                     !.Dirty[ct] =
                                         @ \/ affinity # m.Affinity[ct]])

CpuLive(states, c) == states[c] \notin {"Stopped", "Dead"}

\* the children of parent that the loops over order and childs place, in
\* the order in which they are placed
Placed(m, parent, states) ==
    LET OfType(type) ==
            SelectSeq(Childs(parent),
                      LAMBDA ct : m.Type[ct] = type /\ CpuLive(states, ct))
        Pair(ct) == <<parent, ct>>
        Pairs(cts) == [i \in 1..Len(cts) |-> Pair(cts[i])]
    IN  IF ~CpuLive(states, parent)
          THEN <<>>
          ELSE Pairs(OfType(CpuSetOrder[1]) \o OfType(CpuSetOrder[2])
                     \o OfType(CpuSetOrder[3]) \o OfType(CpuSetOrder[4]))

\* the placements of the reversed subtree, from its i-th container down
RECURSIVE PlacedFrom(_, _, _, _)
PlacedFrom(m, subtree, i, states) ==
    IF i = 0 THEN <<>>
    ELSE Placed(m, subtree[i], states)
             \o PlacedFrom(m, subtree, i - 1, states)

RECURSIVE PlaceAll(_, _)
PlaceAll(m, pairs) ==
    IF pairs = <<>> \/ m.error # "OK" THEN m
    ELSE With(Place(m, Head(pairs)[1], Head(pairs)[2]),
              LAMBDA placed : PlaceAll(placed, Tail(pairs)))

\* whether the container ct has a cpuset cgroup of its own: the root has
\* one, another container from PrepareCgroups to FreeResources when its
\* Controllers hold CGROUP_CPUSET
CgExists(m, states, ct) ==
    ct = "/" \/ (m.Enabled[ct] /\ states[ct] # "Stopped")

\* the container whose cpuset cgroup holds the one of ct: GetCgroup leaves
\* out the containers without the controller
RECURSIVE CgParent(_, _, _)
CgParent(m, states, ct) ==
    IF CgExists(m, states, CpuParent(ct))
      THEN CpuParent(ct)
      ELSE CgParent(m, states, CpuParent(ct))

\* the containers whose cpuset cgroups are directly below the one of ct
CgChilds(m, states, ct) ==
    {x \in CpuCT \ {"/"} : CgExists(m, states, x) /\ CgParent(m, states, x) = ct}

\* whether the kernel takes the write that a record of CpusetWrites asks for
Nested(write) ==
    write.cpus \subseteq write.above /\ write.below \subseteq write.cpus

\* SetCpus of the cgroup of ct: the write is noted with the masks around
\* it; the kernel refuses a mask that is not within the one above or does
\* not hold the ones below, and the error is returned
SetCpus(m, states, ct, cpus) ==
    With([ct |-> ct, cpus |-> cpus,
          above |-> m.Cpus[CgParent(m, states, ct)],
          below |-> UNION {m.Cpus[x] : x \in CgChilds(m, states, ct)}],
         LAMBDA write :
            IF Nested(write)
              THEN [m EXCEPT !.Cpus[ct] = cpus, !.Writes = @ \cup {write}]
              ELSE [m EXCEPT !.error = "Unknown", !.Writes = @ \cup {write}])

\* the first loop of writes, over the containers of list: each dirty live
\* container but self gets the CpuAffinity of self
RECURSIVE WidenPass(_, _, _, _)
WidenPass(self, m, states, list) ==
    IF list = <<>> \/ m.error # "OK" THEN m
    ELSE LET ct == Head(list)
         IN  IF ct = self \/ ~m.Enabled[ct] \/ ~m.Dirty[ct]
                \/ ~CpuLive(states, ct)
               THEN WidenPass(self, m, states, Tail(list))
               ELSE With(SetCpus(m, states, ct, m.Affinity[self]),
                         LAMBDA set : WidenPass(self, set, states, Tail(list)))

\* the second loop of writes: TestClearPropDirty, then each live container
\* that was dirty gets its own CpuAffinity
RECURSIVE NarrowPass(_, _, _, _)
NarrowPass(self, m, states, list) ==
    IF list = <<>> \/ m.error # "OK" THEN m
    ELSE LET ct == Head(list)
         IN  IF ct = self \/ ~m.Enabled[ct] \/ ~m.Dirty[ct]
               THEN NarrowPass(self, m, states, Tail(list))
             ELSE IF ~CpuLive(states, ct)
               THEN NarrowPass(self, [m EXCEPT !.Dirty[ct] = FALSE], states,
                               Tail(list))
             ELSE With(SetCpus([m EXCEPT !.Dirty[ct] = FALSE], states, ct,
                               m.Affinity[ct]),
                       LAMBDA set : NarrowPass(self, set, states, Tail(list)))

\* Subtree() after subtree.reverse(): the parents first
Reversed(list) == [i \in 1..Len(list) |-> list[Len(list) + 1 - i]]

\* DistributeCpus of container self: the placements and, unless one of
\* them fails, the two loops of writes to the cpuset cgroups
DistributeCpus(self, m, states) ==
    With(IF self = "/" THEN [m EXCEPT !.Affinity["/"] = Online] ELSE m,
         LAMBDA online :
            With([online EXCEPT !.Vacant[self] = online.Affinity[self]],
                 LAMBDA start :
                    With(PlaceAll(start, PlacedFrom(start, CpuSubtree(self),
                                      Len(CpuSubtree(self)), states)),
                         LAMBDA placed :
                            With(WidenPass(self, placed, states,
                                           Reversed(CpuSubtree(self))),
                                 LAMBDA widened :
                                    NarrowPass(self, widened, states,
                                               CpuSubtree(self))))))

\* FreeRuntimeResources: the CPUs reserved for ct are redistributed by its
\* parent, an error is only logged
FreeRuntimeResources(m, ct, states) ==
    IF CpuParent(ct) # "none" /\ m.Reserve[ct] # {}
      THEN [DistributeCpus(CpuParent(ct), m, states) EXCEPT !.error = "OK"]
      ELSE m

SetCpuMaps(m) ==
    /\ CpuAffinity' = m.Affinity
    /\ CpuVacant' = m.Vacant
    /\ CpuReserve' = m.Reserve
    /\ AffinityDirty' = m.Dirty
    /\ CpusetCpus' = m.Cpus
    /\ CpusetWrites' = m.Writes

\* FreeResources after FreeRuntimeResources: the cgroups of ct are removed
Removed(m, ct) == [m EXCEPT !.Cpus[ct] = {}]

\* the second loop of Stop, or the loop of Exit, over the containers of
\* todo: each one that is not yet in state final (nor Stopped) has its
\* resources freed in the state it is in and then reaches final
RECURSIVE FreeAll(_, _, _, _)
FreeAll(r, todo, final, reaped) ==
    IF todo = <<>> THEN r
    ELSE LET ct == Head(todo)
         IN  IF r.states[ct] \in {"Stopped", final}
               THEN FreeAll(r, Tail(todo), final, reaped)
               ELSE With([m |-> With(FreeRuntimeResources(r.m, ct,
                                     IF reaped THEN [r.states EXCEPT ![ct] = final]
                                               ELSE r.states),
                                     LAMBDA free : IF reaped THEN free
                                                   ELSE Removed(free, ct)),
                          states |-> [r.states EXCEPT ![ct] = final]],
                         LAMBDA freed : FreeAll(freed, Tail(todo), final, reaped))

\* the fields that the operations on the CPU tree leave alone
nonCpuFields ==
    <<State, lockVars, thr, ahead, op, frozen, isMeta, beforePause, countVars,
      runVars, regVars, Controllers, NewMemGuarantee, KvBroken, AccessLevel,
      nonCpuVars>>

\* Start of the container c below a live parent: PrepareCgroups,
\* ApplyDynamicProperties of StartTask and, when the start fails, FreeResources
CpuStart(c) ==
    /\ c # "/"
    /\ CpuState[c] = "Stopped"
    /\ CpuLive(CpuState, CpuParent(c))
    /\ LET parent == CpuParent(c)
           starting == [CpuState EXCEPT ![c] = "Starting"]
           hasProp == CpuSetType[c] # "Inherit"
           reserved == CpuAffinity[parent] # CpuVacant[parent]
           enabled == CpusetEnabled[c] \/ hasProp \/ reserved
           inherited == IF hasProp \/ reserved
                          THEN CpuMaps
                          ELSE [CpuMaps EXCEPT
                                   !.Affinity[c] = CpuAffinity[parent],
                                   !.Vacant[c] = CpuAffinity[parent]]
           prepared == IF enabled
                         THEN [inherited EXCEPT
                                  !.Enabled[c] = TRUE,
                                  !.Dirty[c] = TRUE,
                                  !.Cpus[c] = CpusetCpus[
                                      CgParent(CpuMaps, starting, c)]]
                         ELSE inherited
       IN  \E launched \in BOOLEAN,
              applied \in {IF enabled
                             THEN DistributeCpus(parent, prepared, starting)
                             ELSE prepared} :
             /\ CpusetEnabled' = [CpusetEnabled EXCEPT ![c] = enabled]
             /\ IF applied.error = "OK" /\ launched
                  THEN /\ SetCpuMaps(applied)
                       /\ CpuState' = [CpuState EXCEPT ![c] = "Running"]
                  ELSE /\ \E freed \in {FreeRuntimeResources(applied, c,
                                   [CpuState EXCEPT ![c] = "Stopping"])} :
                             SetCpuMaps(Removed(freed, c))
                       /\ CpuState' = CpuState
    /\ UNCHANGED <<CoreThreads, CpuSetType, CpuSetArg, nonCpuFields>>

\* Stop of the container c: its subtree is set Stopping, then each
\* container has its resources freed and is set Stopped
CpuStop(c) ==
    /\ c # "/"
    /\ CpuState[c] # "Stopped"
    /\ LET stopping == [x \in CpuCT |->
               IF x \in {CpuSubtree(c)[i] : i \in 1..Len(CpuSubtree(c))}
                  /\ CpuState[x] # "Stopped"
                 THEN "Stopping" ELSE CpuState[x]]
       IN  \E freed \in {FreeAll([m |-> CpuMaps, states |-> stopping],
                                 CpuSubtree(c), "Stopped", FALSE)} :
             /\ SetCpuMaps(freed.m)
             /\ CpuState' = freed.states
    /\ UNCHANGED <<CoreThreads, CpuSetType, CpuSetArg, CpusetEnabled,
                   nonCpuFields>>

\* Exit of the running container c: Reap sets each live container of its
\* subtree Dead and frees its runtime resources
CpuExit(c) ==
    /\ c # "/"
    /\ CpuState[c] = "Running"
    /\ \E reaped \in {FreeAll([m |-> CpuMaps, states |-> CpuState],
                              CpuSubtree(c), "Dead", TRUE)} :
          /\ SetCpuMaps(reaped.m)
          /\ CpuState' = reaped.states
    /\ UNCHANGED <<CoreThreads, CpuSetType, CpuSetArg, CpusetEnabled,
                   nonCpuFields>>

\* the cpu_set values of the clients
CpuSets ==
    {[type |-> "Inherit", arg |-> 0]}
    \cup [type : {"Cores", "Threads", "Reserve"}, arg : 1..MaxArg]

\* the daemon after boot with the stopped containers a, a/b and a/c, whose
\* cpu_set properties are set
CpuInit ==
    /\ LockFields
    /\ AccessLevel = [c \in CT |-> Normal]
    /\ NoProps
    /\ NoEvents
    /\ NoSync
    /\ NoWaiters
    /\ ConstructedCpus
    /\ CoreThreads \in Topologies
    /\ \E set \in [CpuCT \ {"/"} -> CpuSets] :
          /\ CpuSetType = [c \in CpuCT |-> IF c = "/" THEN "Inherit" ELSE set[c].type]
          /\ CpuSetArg = [c \in CpuCT |-> IF c = "/" THEN 0 ELSE set[c].arg]

CpuNext ==
    \E c \in CpuCT :
        \/ CpuStart(c)
        \/ CpuStop(c)
        \/ CpuExit(c)

CpuSpec == CpuInit /\ [][CpuNext]_vars


\* the children of a container, as a set
ChildSet(p) == {Childs(p)[i] : i \in 1..Len(Childs(p))}

\* C23: in every state CpuVacant of each container is a subset of its
\* CpuAffinity, and the CpuReserve sets of the children of one parent are
\* pairwise disjoint subsets of CpuAffinity of the parent.
C23_CpuSetsNested ==
    /\ \A c \in CpuCT : CpuVacant[c] \subseteq CpuAffinity[c]
    /\ \A p \in CpuCT : \A c \in ChildSet(p) :
          /\ CpuReserve[c] \subseteq CpuAffinity[p]
          /\ \A d \in ChildSet(p) \ {c} : CpuReserve[c] \cap CpuReserve[d] = {}

\* a step in which Start of the container c succeeds
Started(c) == CpuState[c] = "Stopped" /\ CpuState'[c] = "Running"

\* whole cores: every thread of the core of each CPU of cpus
WholeCores(cpus) == UNION {CoreThreads[cpu] : cpu \in cpus}

\* C24 as stated: a/b with cpu_set "cores 1" below a, which has no cpu_set
\* and no other child running, is started with CpuAffinity equal to the two
\* threads of one core and leaves the other CPUs in CpuVacant of a.
C24_Original ==
    [][(/\ Started("a/b")
        /\ CpuSetType["a/b"] = "Cores" /\ CpuSetArg["a/b"] = 1
        /\ CpuSetType["a"] = "Inherit"
        /\ ~CpuLive(CpuState, "a/c")) =>
          /\ \E cpu \in Online : CpuAffinity'["a/b"] = CoreThreads[cpu]
          /\ CpuVacant'["a"] = Online \ CpuAffinity'["a/b"]]_vars

\* C24: a container started with cpu_set "cores n" has n whole cores with
\* all their threads in CpuReserve, none of them vacant in its parent, and
\* the lowest thread of each of these cores in CpuAffinity; for a/b with
\* "cores 1" below a, which has no cpu_set and no other child running,
\* CpuVacant of a is left with the CPUs outside CpuReserve of a/b.
C24_CoresReserveWholeCores ==
    [][\A c \in CpuCT :
          (Started(c) /\ CpuSetType[c] = "Cores") =>
              /\ Cardinality(CpuAffinity'[c]) = CpuSetArg[c]
              /\ CpuReserve'[c] = WholeCores(CpuAffinity'[c])
              /\ \A cpu \in CpuAffinity'[c] :
                    \A other \in CoreThreads[cpu] : cpu <= other
              /\ \A cpu, other \in CpuAffinity'[c] :
                    cpu # other => CoreThreads[cpu] # CoreThreads[other]
              /\ CpuReserve'[c] \cap CpuVacant'[CpuParent(c)] = {}
              /\ (/\ c = "a/b" /\ CpuSetArg[c] = 1
                  /\ CpuSetType["a"] = "Inherit"
                  /\ ~CpuLive(CpuState, "a/c")) =>
                    CpuVacant'["a"] = Online \ CpuReserve'["a/b"]]_vars

\* a/b runs with "cores 1" on a machine whose cores have interleaved
\* numbers: the core of CPUs 0 and 2 is reserved, CPU 0 is its affinity
C24_Witness ==
    /\ CoreThreads[0] = {0, 2}
    /\ CpuState["a/b"] = "Running"
    /\ CpuSetType["a/b"] = "Cores" /\ CpuSetArg["a/b"] = 1
    /\ CpuSetType["a"] = "Inherit"
    /\ CpuReserve["a/b"] = {0, 2}
    /\ CpuAffinity["a/b"] = {0}
    /\ CpuVacant["a"] = {1, 3}

(***************************************************************************)
(* TContainer::Event: the events RotateLogs and DestroyAgedContainer, with *)
(* the exits of tasks and the requests of a client in between.             *)
(***************************************************************************)
\* the worker that handles the events and the worker that serves the client
EventWorkers == {1}

RpcWorkers == {2}

\* config().container().default_aging_time_s() * 1000, in ticks
AgingTime == 1

\* config().daemon().log_rotate_ms(), in ticks
LogRotateMs == 1

\* the last tick of the clock
MaxTime == 3

RotateLogsEvent == [type |-> "RotateLogs", ct |-> NoCT, due |-> 0]

AgedEvent(c) == [type |-> "DestroyAgedContainer", ct |-> c, due |-> 0]

\* EventQueue->Add(timeout, event)
Add(q, timeout, event) == Append(q, [event EXCEPT !.due = now + timeout])

\* the events of queue q that the event loop can take now: the ones that are
\* due first
DueFirst(q) ==
    {i \in DOMAIN q : /\ q[i].due <= now
                      /\ \A j \in DOMAIN q : q[i].due <= q[j].due}

Take(q, i) == SubSeq(q, 1, i - 1) \o SubSeq(q, i + 1, Len(q))

\* GetCurrentTimeMs() >= ct->DeathTime + ct->AgingTime, without the State
Aged_SinceDeath(c) == now >= runtime[c].DeathTime

Aged(c) == now >= runtime[c].DeathTime + AgingTime

\* the containers whose fields another thread may be writing while worker t
\* reads them without lock
Racing(t) ==
    {c \in Containers :
        \E u \in Threads \ {t} :
            /\ thr[u].pc = "held"
            /\ thr[u].mode = "write"
            /\ op[u].pc \notin {"call", "ret", "event"}
            /\ thr[u].ct \in Ancestors(c) \cup {c}}

\* the loop of RotateLogs over the subtree of the root: an event for every
\* container in seen, the ones read as Dead and aged
RECURSIVE ScheduleAged(_, _, _)
ScheduleAged(q, todo, seen) ==
    IF todo = <<>> THEN q
    ELSE ScheduleAged(IF Head(todo) \in seen
                        THEN Add(q, 0, AgedEvent(Head(todo))) ELSE q,
                      Tail(todo), seen)

\* the last statement of RotateLogs
Reschedule_Never(q) == q

Reschedule(q) == Add(q, LogRotateMs, RotateLogsEvent)

\* the clock advances
Tick ==
    /\ now < MaxTime
    /\ now' = now + 1
    /\ UNCHANGED <<State, lockVars, thr, ahead, op, frozen, isMeta, beforePause,
                   countVars, regVars, runVars, Controllers, NewMemGuarantee,
                   KvBroken, AccessLevel, propVars, cpuVars, syncVars, waitVars,
                   EventQueue>>

\* the event loop takes a RotateLogs event and calls Event
RotateTake(t) ==
    /\ thr[t].pc = "idle"
    /\ op[t].pc = "none"
    /\ \E i \in DueFirst(EventQueue) :
          /\ EventQueue[i].type = "RotateLogs"
          /\ EventQueue' = Take(EventQueue, i)
    /\ op' = [op EXCEPT ![t] = [NoOp EXCEPT !.name = "RotateLogs", !.pc = "event"]]
    /\ UNCHANGED <<State, lockVars, thr, ahead, frozen, isMeta, beforePause,
                   countVars, regVars, runVars, Controllers, NewMemGuarantee,
                   KvBroken, AccessLevel, propVars, cpuVars, syncVars, waitVars, now>>

\* Event of RotateLogs: the containers are read without lock; the fields of
\* a container that another thread is writing are read with either outcome
RotateLogs(t) ==
    /\ op[t].pc = "event"
    /\ op[t].name = "RotateLogs"
    /\ \E raced \in SUBSET Racing(t) :
          LET seen == {c \in Containers \ Racing(t) :
                          State[c] = "Dead" /\ Aged(c)} \cup raced
          IN  EventQueue' = Reschedule(ScheduleAged(EventQueue, PostOrder(ROOT), seen))
    /\ op' = [op EXCEPT ![t] = NoOp]
    /\ UNCHANGED <<State, lockVars, thr, ahead, frozen, isMeta, beforePause,
                   countVars, regVars, runVars, Controllers, NewMemGuarantee,
                   KvBroken, AccessLevel, propVars, cpuVars, syncVars, waitVars, now>>

\* the event loop takes a DestroyAgedContainer event and Event locks its
\* container, unless the container is gone
AgedTake(t) ==
    /\ thr[t].pc = "idle"
    /\ op[t].pc = "none"
    /\ \E i \in DueFirst(EventQueue) :
          /\ EventQueue[i].type = "DestroyAgedContainer"
          /\ EventQueue' = Take(EventQueue, i)
          /\ IF EventQueue[i].ct \notin Containers
               THEN UNCHANGED <<lockVars, thr, op>>
               ELSE /\ LockContainer(t, EventQueue[i].ct)
                    /\ op' = [op EXCEPT ![t] =
                          IF thr'[t].pc = "idle" THEN NoOp
                          ELSE [NoOp EXCEPT !.name = "DestroyAgedContainer",
                                            !.pc = "event",
                                            !.ct = EventQueue[i].ct]]
    /\ TrackAhead
    /\ UNCHANGED <<State, frozen, isMeta, beforePause, countVars, regVars,
                   runVars, Controllers, NewMemGuarantee, KvBroken, AccessLevel,
                   propVars, cpuVars, syncVars, waitVars, now>>

\* Event of DestroyAgedContainer with the lock: Destroy, or nothing
AgedCheck(t) ==
    /\ op[t].pc = "event"
    /\ op[t].name = "DestroyAgedContainer"
    /\ HoldsWrite(t)
    /\ IF State[op[t].ct] = "Dead" /\ Aged(op[t].ct)
         THEN DestroyEntry(t)
         ELSE Return(t, "DestroyAgedContainer", "OK", op[t].ct, FALSE, FALSE)
    /\ UNCHANGED <<State, lockVars, thr, ahead, frozen, isMeta, cfgVars, runVars,
                   beforePause, countVars, regVars>>

\* Event of Exit: the container whose task has the pid is locked
ExitTake(t) ==
    /\ Request(t)
    /\ op'[t].pc = "call"
    /\ runtime[op'[t].ct].Task # 0

\* Event of Exit with the lock: the container has lost the pid meanwhile
ExitMiss(t) ==
    /\ op[t].pc = "call"
    /\ HoldsWrite(t)
    /\ runtime[op[t].ct].Task = 0
    /\ Return(t, "Exit", "OK", op[t].ct, FALSE, FALSE)
    /\ UNCHANGED <<State, lockVars, thr, ahead, frozen, isMeta, cfgVars, runVars,
                   beforePause, countVars, regVars>>

\* the daemon has queued its first RotateLogs event
FirstRotateLogs == EventQueue = Add(<<>>, LogRotateMs, RotateLogsEvent)

\* the containers of the chain are registered and stopped, a and b run a
\* command, and the first RotateLogs event is queued
EventInit ==
    /\ State = [c \in CT |-> IF c = ROOT THEN "Meta" ELSE "Stopped"]
    /\ Locked = [c \in CT |-> 0]
    /\ PendingWrite = [c \in CT |-> FALSE]
    /\ SubtreeRead = [c \in CT |-> 0]
    /\ SubtreeWrite = [c \in CT |-> 0]
    /\ thr = [t \in Threads |-> IdleThread]
    /\ ahead = [t \in Threads |-> {}]
    /\ op = [t \in Threads |-> NoOp]
    /\ frozen = [c \in CT |-> FALSE]
    /\ isMeta = [c \in CT |-> c = ROOT]
    /\ beforePause = [c \in CT |-> "none"]
    /\ StartingChildren = [c \in CT |-> 0]
    /\ RunningChildren = [c \in CT |-> 0]
    /\ Containers = CT
    /\ ChildList = [c \in CT |-> IF c = CT_B THEN <<>> ELSE <<c + 1>>]
    /\ Id = [c \in CT |-> c]
    /\ IdMap = CT
    /\ runtime = [c \in CT |-> NoRuntime]
    /\ KvState = State
    /\ Controllers = [c \in CT |-> FALSE]
    /\ NewMemGuarantee = [c \in CT |-> 0]
    /\ KvBroken = FALSE
    /\ AccessLevel = [c \in CT |-> Normal]
    /\ NoProps
    /\ NoCpus
    /\ now = 1
    /\ FirstRotateLogs
    /\ NoSync
    /\ NoWaiters

EventNext ==
    \/ Tick
    \/ \E t \in EventWorkers :
          \/ RotateTake(t)
          \/ RotateLogs(t)
          \/ AgedTake(t)
          \/ AgedCheck(t)
          \/ ExitTake(t)
          \/ ExitMiss(t)
          \/ ExitCall(t)
          \/ ExitStep(t)
          \/ DestroyStep(t)
    \/ \E t \in RpcWorkers :
          \/ Request(t)
          \/ StartCall(t)
          \/ StartNested(t)
          \/ StartPrepare(t)
          \/ StartResources(t)
          \/ StartTask(t)
          \/ StartFinish(t)
          \/ StopCall(t)
    \/ \E t \in Workers :
          \/ ClientWake(t)
          \/ Release(t)
          \/ StopTerminate(t)
          \/ StopUpgrade(t)
          \/ StopFree(t)

EventSpec == EventInit /\ [][EventNext]_vars

\* C25: when the handler of a DestroyAgedContainer event has the lock of its
\* container, it starts Destroy if the container is Dead and
\* now >= DeathTime + AgingTime, and otherwise returns with every container
\* registered and unchanged; a container is unregistered only inside such a
\* Destroy.
C25_DestroysOnlyAgedDead ==
    [][\A t \in EventWorkers :
          LET ct == op[t].ct
              aged == /\ State[ct] = "Dead"
                      /\ now >= runtime[ct].DeathTime + AgingTime
          IN  /\ (/\ op[t].pc = "event"
                  /\ op[t].name = "DestroyAgedContainer"
                  /\ thr[t].pc = "held"
                  /\ op'[t] # op[t]) =>
                    IF aged
                      THEN /\ op'[t].name = "Destroy"
                           /\ op'[t].ct = ct
                      ELSE /\ op'[t].pc = "ret"
                           /\ op'[t].name = "DestroyAgedContainer"
                           /\ <<State, runtime, KvState, regVars, frozen>>' =
                                 <<State, runtime, KvState, regVars, frozen>>
              /\ (op[t].name # "Destroy" /\ op'[t].name = "Destroy") =>
                    /\ op[t].name = "DestroyAgedContainer"
                    /\ aged
              /\ (Containers' # Containers /\ op'[t] # op[t]) =>
                    op[t].name = "Destroy"]_vars

\* the handler has returned without Destroy from a container that died
\* after the event for it was queued and is not aged yet
C25_Witness ==
    \E t \in EventWorkers :
        /\ op[t].pc = "ret"
        /\ op[t].name = "DestroyAgedContainer"
        /\ State[op[t].ct] = "Dead"
        /\ runtime[op[t].ct].DeathTime = now
        /\ op[t].ct \in Containers

\* the RotateLogs events in queue q
Rotations(q) == {i \in DOMAIN q : q[i].type = "RotateLogs"}

\* no worker is busy and no queued event is due
Quiescent ==
    /\ \A t \in Threads : thr[t].pc = "idle" /\ op[t].pc = "none"
    /\ DueFirst(EventQueue) = {}

\* C26: the handler of a RotateLogs event adds exactly one RotateLogs event
\* to the queue, so there is always one RotateLogs event, queued or being
\* handled, and the queue of a quiescent daemon holds exactly one event.
C26_RotateLogsReschedules ==
    /\ [](/\ Cardinality(Rotations(EventQueue)) +
               Cardinality({t \in Threads : op[t].name = "RotateLogs"}) = 1
          /\ Quiescent => Len(EventQueue) = 1)
    /\ [][\A t \in EventWorkers :
            (op[t].name = "RotateLogs" /\ op'[t].name # "RotateLogs") =>
                /\ Cardinality(Rotations(EventQueue')) =
                      Cardinality(Rotations(EventQueue)) + 1
                /\ EventQueue'[Len(EventQueue')] =
                      [RotateLogsEvent EXCEPT !.due = now + LogRotateMs]]_vars

\* the daemon is quiescent after a RotateLogs event was handled and the aged
\* container was destroyed
C26_Witness ==
    /\ Quiescent
    /\ Len(EventQueue) = 1
    /\ EventQueue[1].due > 1 + LogRotateMs
    /\ CT_A \notin Containers

(***************************************************************************)
(* TContainer::SyncState, called by Restore for every record of the        *)
(* key-value storage, parents first.                                       *)
(***************************************************************************)
\* what SyncState finds out about WaitTask: it does not exist ("gone"), it
\* is a zombie in the freezer cgroup of the container or in another cgroup,
\* its cgroup cannot be read, it lives in another cgroup, it lives in the
\* freezer cgroup as child of the daemon ("inside") or reparented, where
\* Seize works or fails
TaskEnvs ==
    {"gone", "zombie", "zombieElsewhere", "unreadable", "elsewhere", "inside",
     "reparented", "unseizable"}

\* the state of the parent that SyncState looks at
ParentState(c) == IF Parent[c] = ROOT THEN "Meta" ELSE Synced[Parent[c]].State

\* ForgetPid on the fields of a restored container
SyncForgetPid(ct) == [ct EXCEPT !.Task = 0, !.WaitTask = 0, !.SeizeTask = 0]

\* Reap(false) on the fields of a restored container
SyncReap(ct) == [SyncForgetPid(ct) EXCEPT !.State = "Dead"]

\* SyncState from Starting to the thaw: the State behind the freezer checks
SyncFreezer(ct, cg) ==
    LET started == IF ct.State = "Starting"
                     THEN (IF ct.IsMeta THEN "Meta" ELSE "Running")
                     ELSE ct.State
    IN  [ct EXCEPT !.State =
            IF cg.freezer # "frozen" /\ started = "Paused"
              THEN (IF ct.IsMeta THEN "Meta" ELSE "Running")
              ELSE started]

\* SyncState: the checks of the wait task
SyncTask(ct, cg) ==
    IF ct.State = "Stopped" THEN SyncReap(ct)
    ELSE IF ct.State = "Meta" /\ ct.WaitTask = 0 /\ ~ct.Isolate THEN ct
    ELSE IF cg.task = "gone" THEN SyncReap(ct)
    ELSE IF cg.task \in {"zombie", "zombieElsewhere"} THEN [ct EXCEPT !.Task = 0]
    ELSE IF cg.task = "unreadable" THEN SyncReap(ct)
    ELSE IF cg.task = "elsewhere" THEN SyncReap(ct)
    ELSE IF cg.task = "reparented" THEN [ct EXCEPT !.SeizeTask = 1]
    ELSE IF cg.task = "unseizable" THEN SyncReap(ct)
    ELSE ct

\* SyncState: the switch over the State of the parent; Stop(0) fails when
\* the freezer cgroup of the parent is freezing
SyncParent(ct, parent, parentFreezing) ==
    CASE parent = "Stopped" ->
           IF ct.State # "Stopped" /\ ~parentFreezing
             THEN [SyncForgetPid(ct) EXCEPT !.State = "Stopped"] ELSE ct
      [] parent = "Dead" ->
           IF ct.State \notin {"Dead", "Stopped"} THEN SyncReap(ct) ELSE ct
      [] parent = "Paused" ->
           IF ct.State \in {"Running", "Meta"}
             THEN [ct EXCEPT !.State = "Paused"] ELSE ct
      [] OTHER -> ct

\* SyncState of the loaded fields ct with the cgroups cg
SyncFields(ct, cg, parent, parentFreezing) ==
    IF cg.freezer = "absent"
      THEN [SyncForgetPid(ct) EXCEPT !.State = "Stopped"]
      ELSE SyncParent(SyncTask(SyncFreezer(ct, cg), cg), parent, parentFreezing)

\* FreezerSubsystem.IsParentFreezing: the freezer cgroup of the parent is
\* frozen and SyncState of the parent has not thawed it
SyncParentFreezing(c) ==
    /\ Parent[c] # ROOT
    /\ Cgroups[Parent[c]].freezer = "frozen"
    /\ Synced[Parent[c]].State = "Paused"

\* Restore of the record of container c: Load, then SyncState
RestoreSync(c) ==
    /\ Synced[c] = NotRestored
    /\ IF Parent[c] = ROOT THEN TRUE ELSE Synced[Parent[c]] # NotRestored
    /\ Synced' = [Synced EXCEPT ![c] =
          SyncFields(Loaded[c], Cgroups[c], ParentState(c), SyncParentFreezing(c))]
    /\ UNCHANGED <<State, lockVars, thr, ahead, op, frozen, isMeta, beforePause,
                   countVars, regVars, runVars, Controllers, NewMemGuarantee,
                   KvBroken, AccessLevel, propVars, cpuVars, eventVars, waitVars,
                   Loaded, Cgroups>>

\* the fields that Load can leave in a container
LoadedFields ==
    {r \in [State : {"Stopped", "Dead", "Running", "Paused", "Meta", "Starting"},
            Task : {0, 1}, WaitTask : {0, 1}, SeizeTask : {0},
            IsMeta : BOOLEAN, Isolate : BOOLEAN] : r.Task = r.WaitTask}

\* the cgroups and the task that the daemon can find for loaded fields r: a
\* task without pid does not exist
FoundCgroups(r) ==
    [freezer : {"absent", "thawed", "frozen"},
     task : IF r.WaitTask = 0 THEN {"gone"} ELSE TaskEnvs]

\* the daemon has loaded the records of a and b; the freezer cgroup of b
\* lies inside the freezer cgroup of a; a is not isolated and its task, if
\* it has one, is gone or lives in its freezer cgroup
SyncInit ==
    /\ LockFields
    /\ AccessLevel = [c \in CT |-> Normal]
    /\ NoProps
    /\ NoCpus
    /\ NoEvents
    /\ NoWaiters
    /\ Synced = [c \in CT \ {ROOT} |-> NotRestored]
    /\ \E a \in LoadedFields, b \in LoadedFields :
          /\ ~a.Isolate
          /\ Loaded = [c \in CT \ {ROOT} |-> IF c = CT_A THEN a ELSE b]
          /\ \E ca \in FoundCgroups(a), cb \in FoundCgroups(b) :
                /\ ca.task \in {"gone", "inside"}
                /\ cb.freezer # "absent" => ca.freezer # "absent"
                /\ Cgroups = [c \in CT \ {ROOT} |-> IF c = CT_A THEN ca ELSE cb]

SyncNext == \E c \in CT \ {ROOT} : RestoreSync(c)

SyncSpec == SyncInit /\ [][SyncNext]_vars

\* the wait task exists inside the freezer cgroup of the container
TaskInFreezer(c) ==
    /\ Cgroups[c].freezer # "absent"
    /\ Cgroups[c].task \in {"zombie", "inside", "reparented", "unseizable"}

\* C27: after SyncState a restored container is Running, Meta or Paused only
\* if its freezer cgroup exists, its wait task exists inside that cgroup or
\* it is a non-isolated meta container without task, and its parent is not
\* Stopped or Dead; a container recorded Running below a running parent,
\* whose task lives in its freezer cgroup as child of the daemon, is Running
\* with the pids it was loaded with.
C27_LiveOnlyWithTaskInFreezer ==
    \A c \in CT \ {ROOT} :
        Synced[c] # NotRestored =>
            /\ Synced[c].State \in {"Running", "Meta", "Paused"} =>
                  /\ Cgroups[c].freezer # "absent"
                  /\ \/ TaskInFreezer(c)
                     \/ /\ Loaded[c].IsMeta \/ Loaded[c].State = "Meta"
                        /\ ~Loaded[c].Isolate
                        /\ Loaded[c].WaitTask = 0
                  /\ ParentState(c) \notin {"Stopped", "Dead"}
            /\ (/\ Loaded[c].State = "Running"
                /\ Cgroups[c].freezer # "absent"
                /\ Cgroups[c].task = "inside"
                /\ ParentState(c) \in {"Running", "Meta"}) =>
                  Synced[c] = Loaded[c]

\* thread t holds a lock on container c: granted by Lock and not yet given
\* back, also while it sleeps in UpgradeLock
HoldsLockOn(t, c) == thr[t].pc \in {"held", "upgrade"} /\ thr[t].ct = c

\* C31: while a thread holds a write lock on a container X (Locked = -1), no
\* other thread holds a lock on X and no thread holds a lock on a descendant
\* of X, also when the write lock came from DowngradeLock and UpgradeLock.
C31_WriteLockExcludesSubtree ==
    \A t \in Threads, x \in CT :
        (HoldsWrite(t) /\ thr[t].ct = x /\ Locked[x] = -1) =>
            \A u \in Threads \ {t}, c \in CT :
                HoldsLockOn(u, c) => (c # x /\ ~IsChildOf(c, x))

\* thread u is granted a lock on container x in this step
GrantedOn(u, x) ==
    /\ thr[u].pc \in {"idle", "wait"}
    /\ thr'[u].pc = "held"
    /\ thr'[u].ct = x

\* thread t sleeps in the wait loop of UpgradeLock on container x
InUpgradeLock(t, x) == thr[t].pc = "upgrade" /\ thr[t].ct = x

\* every holder eventually unlocks and a thread whose wait in UpgradeLock can
\* end leaves it; both stay enabled until they are taken
FairUpgradeSpec ==
    /\ LockSpec
    /\ \A t \in Threads :
          /\ WF_vars(Unlock(t))
          /\ WF_vars(UpgradeWake(t))

\* C39: while a thread waits inside UpgradeLock on X no lock on X is granted
\* to any other thread, and when every other reader of X eventually unlocks
\* the upgrade completes with Locked = -1 and PendingWrite = false.
C39_UpgradeLockTerminates ==
    /\ [][\A t \in Threads, x \in CT :
            InUpgradeLock(t, x) =>
                \A u \in Threads \ {t} : ~GrantedOn(u, x)]_vars
    /\ \A t \in Threads :
          (thr[t].pc = "upgrade") ~>
              (HoldsWrite(t) /\ Locked[thr[t].ct] = -1 /\ ~PendingWrite[thr[t].ct])

\* a thread sleeps in UpgradeLock behind another reader while a third thread
\* sleeps in a read request on the same container
C39_Witness ==
    \E t, u, r \in Threads, x \in CT :
        /\ InUpgradeLock(t, x)
        /\ Locked[x] >= 2
        /\ thr[u].pc = "held" /\ thr[u].mode = "read" /\ thr[u].ct = x
        /\ thr[r].pc = "wait" /\ thr[r].mode = "read" /\ thr[r].ct = x

\* the conditions that Unlock asserts when it is called on container ct
UnlockAsserts(ct) ==
    /\ Locked[ct] # 0
    /\ \A a \in Ancestors(ct) :
          IF Locked[ct] > 0 THEN SubtreeRead[a] > 0 ELSE SubtreeWrite[a] > 0

\* C40: Locked >= -1, SubtreeRead >= 0 and SubtreeWrite >= 0 for every
\* container, and the assertions of Unlock and of DowngradeLock are true
\* whenever a lock holder can call them, also while another thread waits in
\* UpgradeLock.
C40_LockFieldsWellFormed ==
    /\ \A c \in CT :
          Locked[c] >= -1 /\ SubtreeRead[c] >= 0 /\ SubtreeWrite[c] >= 0
    /\ \A t \in DOMAIN thr :
          /\ thr[t].pc = "held" => UnlockAsserts(thr[t].ct)
          /\ HoldsWrite(t) => Locked[thr[t].ct] = -1

\* the last other reader of a container below the root has unlocked while a
\* thread sleeps in UpgradeLock on it
C40_Witness ==
    \E t \in Threads, x \in CT \ {ROOT} :
        /\ InUpgradeLock(t, x)
        /\ Locked[x] = 1
        /\ \A u \in Threads \ {t} : thr[u].pc = "idle"

\* C36: in every reachable state StartingChildren and RunningChildren of
\* every container, registered or destroyed, equal the number of its strict
\* descendants in state Starting and Running, and neither is negative.
C36_CountersExact ==
    \A p \in CT :
        /\ StartingChildren[p] >= 0
        /\ RunningChildren[p] >= 0
        /\ StartingChildren[p] =
              Cardinality({c \in CT \ {p} : IsChildOf(c, p) /\ State[c] = "Starting"})
        /\ RunningChildren[p] =
              Cardinality({c \in CT \ {p} : IsChildOf(c, p) /\ State[c] = "Running"})

\* a container is destroyed and its parent, started again, is counted by the
\* root
C36_Witness ==
    \E c \in CT \ {ROOT} :
        /\ State[c] = "Destroyed"
        /\ Parent[c] # ROOT
        /\ State[Parent[c]] \in {"Starting", "Running"}
        /\ StartingChildren[ROOT] + RunningChildren[ROOT] = 1

\* C37: once a container is Dead its ExitStatus stays unchanged until it is
\* stopped or destroyed, also when an OOM event or a second exit event is
\* handled after the container was reaped.
C37_ExitStatusKept ==
    [][\A c \in CT :
          (State[c] = "Dead" /\ State'[c] = "Dead")
              => runtime'[c].ExitStatus = runtime[c].ExitStatus]_vars

\* the registered strict descendants of container p
Registered(p) == {c \in CT : IsChildOf(c, p) /\ State[c] # "Destroyed"}

\* C35 as claimed: every descendant of a Stopped container is Stopped and
\* every descendant of a Dead container is Dead or Stopped.
C35_Original ==
    \A p \in CT :
        /\ State[p] = "Stopped" => \A c \in Registered(p) : State[c] = "Stopped"
        /\ State[p] = "Dead" =>
              \A c \in Registered(p) : State[c] \in {"Dead", "Stopped"}

\* C35: every descendant of a Stopped container is Stopped and every
\* descendant of a Dead container is Dead, Stopped or, while Stop is at work
\* on it, Stopping; a container in Starting, Running, Meta or Paused has no
\* Stopped or Dead ancestor.
C35_NoLiveBelowStoppedOrDead ==
    \A p \in CT :
        /\ State[p] = "Stopped" => \A c \in Registered(p) : State[c] = "Stopped"
        /\ State[p] = "Dead" =>
              \A c \in Registered(p) : State[c] \in {"Dead", "Stopping", "Stopped"}
        /\ State[p] \in {"Stopped", "Dead"} =>
              \A c \in Registered(p) :
                  State[c] \notin {"Starting", "Running", "Meta", "Paused"}

\* Stop is at work below a Dead container: its child is Stopping
C35_Witness ==
    \E p \in CT, c \in CT :
        /\ Parent[c] = p
        /\ State[p] = "Dead"
        /\ State[c] = "Stopping"

(***************************************************************************)
(* TContainerWaiter: the waiters of the Wait requests, woken by the        *)
(* NotifyWaiters calls of SetState and by their WaitTimeout events, all    *)
(* under ContainersMutex.                                                  *)
(***************************************************************************)
NumWaiters == 2

WaiterIds == 1..NumWaiters

\* a waiter that no Wait request has created yet; Client: the weak pointer
\* to the client is set, owned: client->Waiter holds the waiter, visible:
\* the containers whose names ComposeName gives the client, match: the
\* containers that MatchWildcard accepts, timeout: the state of the
\* WaitTimeout event, responses and name: the calls of SendWaitResponse
NoWaiter ==
    [Client |-> FALSE, owned |-> FALSE, visible |-> {}, match |-> {},
     timeout |-> "none", responses |-> 0, name |-> NoCT]

\* the states that SetState is called with
SetStates == {"Stopped", "Running", "Meta", "Dead"}

\* mutant: WakeupWaiter that keeps Client and client->Waiter
Woken_Keeps(r) == r

\* the tail of WakeupWaiter: Client.reset() and client->Waiter = nullptr
Woken(r) == [r EXCEPT !.Client = FALSE, !.owned = FALSE]

\* TContainerWaiter::WakeupWaiter(who, wildcard) on the waiter w of ws; who
\* is NoCT for the null pointer of the WaitTimeout event
WakeupWaiter(ws, w, who, wildcard) ==
    IF ~ws[w].Client THEN ws
    ELSE IF who # NoCT /\ who \notin ws[w].visible THEN ws
    ELSE IF who # NoCT /\ wildcard /\ who \notin ws[w].match THEN ws
    ELSE [ws EXCEPT ![w] =
             Woken([@ EXCEPT !.responses = @ + 1, !.name = who])]

\* the loops of NotifyWaiters and WakeupWildcard: the waiters of the list
\* whose weak pointer can still be locked are woken in turn
RECURSIVE WakeupList(_, _, _, _)
WakeupList(ws, list, who, wildcard) ==
    IF list = <<>> THEN ws
    ELSE WakeupList(IF ws[Head(list)].owned
                      THEN WakeupWaiter(ws, Head(list), who, wildcard)
                      ELSE ws,
                    Tail(list), who, wildcard)

\* CleanupWaiters: the entries that have not expired
CleanupWaiters(ws, list) == SelectSeq(list, LAMBDA w : ws[w].owned)

\* TContainer::NotifyWaiters of container p on st, the waiters and the
\* Waiters lists
NotifyWaitersOf(st, p) ==
    LET list == CleanupWaiters(st.waiter, st.Waiters[p])
        woken == WakeupList(st.waiter, list, p, FALSE)
    IN  [waiter |-> IF IsRoot(p) THEN woken
                    ELSE WakeupList(woken, WildcardWaiters, p, TRUE),
         Waiters |-> [st.Waiters EXCEPT ![p] = list]]

\* the ancestors of c, the parent first
RECURSIVE ParentChain(_)
ParentChain(c) ==
    IF Parent[c] = NoCT THEN <<>> ELSE <<Parent[c]>> \o ParentChain(Parent[c])

RECURSIVE NotifyAll(_, _, _)
NotifyAll(st, order, notified) ==
    IF order = <<>> THEN st
    ELSE NotifyAll(IF Head(order) \in notified
                     THEN NotifyWaitersOf(st, Head(order)) ELSE st,
                   Tail(order), notified)

\* SetState(next) on container c: State, the counters of the ancestors and
\* the NotifyWaiters calls, first of the ancestors, then of c
SetStateCall(c, next) ==
    /\ State[c] # next
    /\ State' = [State EXCEPT ![c] = next]
    /\ TrackChildren
    /\ LET st == NotifyAll([waiter |-> waiter, Waiters |-> Waiters],
                           ParentChain(c) \o <<c>>,
                           SetStateNotifies(c, State[c], next, RunningChildren',
                                            State'))
       IN  /\ waiter' = st.waiter
           /\ Waiters' = st.Waiters
    /\ UNCHANGED <<lockVars, thr, ahead, op, frozen, isMeta, beforePause, regVars,
                   runVars, Controllers, NewMemGuarantee, KvBroken, AccessLevel,
                   propVars, cpuVars, eventVars, syncVars, WildcardWaiters>>

\* TContainer::AddWaiter
AddWaiter(ws, list, w) == Append(CleanupWaiters(ws, list), w)

\* a Wait request for the containers of targets and, with a non-empty match,
\* for a wildcard, with or without timeout: the waiter is created, added to
\* the lists and its WaitTimeout event is queued
WaitRequest(w) ==
    /\ waiter[w] = NoWaiter
    /\ \E targets \in {{}, {CT_A}, {CT_B}, {ROOT, CT_B}}, match \in {{}, {CT_B}},
          visible \in {CT, CT \ {CT_A}}, timed \in BOOLEAN :
          /\ targets # {} \/ match # {}
          /\ waiter' = [waiter EXCEPT ![w] =
                [NoWaiter EXCEPT !.Client = TRUE, !.owned = TRUE,
                                 !.visible = visible, !.match = match,
                                 !.timeout = IF timed THEN "queued" ELSE "none"]]
          /\ Waiters' = [c \in CT |->
                IF c \in targets THEN AddWaiter(waiter, Waiters[c], w)
                                 ELSE Waiters[c]]
          /\ WildcardWaiters' =
                IF match # {} THEN AddWaiter(waiter, WildcardWaiters, w)
                              ELSE WildcardWaiters
    /\ UNCHANGED <<State, lockVars, thr, ahead, op, frozen, isMeta, beforePause,
                   countVars, regVars, runVars, Controllers, NewMemGuarantee,
                   KvBroken, AccessLevel, propVars, cpuVars, eventVars, syncVars>>

\* Event, case WaitTimeout: the waiter of the event is woken with a null
\* container if its weak pointer can still be locked
WaitTimeout(w) ==
    /\ waiter[w].timeout = "queued"
    /\ waiter' = [(IF waiter[w].owned
                     THEN WakeupWaiter(waiter, w, NoCT, FALSE) ELSE waiter)
                     EXCEPT ![w].timeout = "handled"]
    /\ UNCHANGED <<State, lockVars, thr, ahead, op, frozen, isMeta, beforePause,
                   countVars, regVars, runVars, Controllers, NewMemGuarantee,
                   KvBroken, AccessLevel, propVars, cpuVars, eventVars, syncVars,
                   Waiters, WildcardWaiters>>

WaitInit ==
    /\ LockFields
    /\ AccessLevel = [c \in CT |-> Normal]
    /\ NoProps
    /\ NoCpus
    /\ NoEvents
    /\ NoSync
    /\ waiter = [w \in WaiterIds |-> NoWaiter]
    /\ Waiters = [c \in CT |-> <<>>]
    /\ WildcardWaiters = <<>>

WaitNext ==
    \/ \E c \in CT \ {ROOT}, next \in SetStates : SetStateCall(c, next)
    \/ \E w \in WaiterIds :
          \/ WaitRequest(w)
          \/ WaitTimeout(w)

WaitSpec == WaitInit /\ [][WaitNext]_vars

\* C38: each waiter receives at most one wait response; once it was woken,
\* by a state change, a wildcard match or its WaitTimeout event, every later
\* wake-up attempt leaves it as it is.
C38_OneResponsePerWaiter ==
    [][\A w \in WaiterIds :
          /\ waiter'[w].responses <= 1
          /\ waiter[w].responses = 1 =>
                waiter'[w] = [waiter[w] EXCEPT !.timeout = waiter'[w].timeout]]_vars

\* a waiter with a wildcard was woken by a state change of a container, and
\* its WaitTimeout event was handled afterwards
C38_Witness ==
    \E w \in WaiterIds :
        /\ waiter[w].responses = 1
        /\ waiter[w].name \in CT
        /\ waiter[w].timeout = "handled"
        /\ \E i \in DOMAIN WildcardWaiters : WildcardWaiters[i] = w

(***************************************************************************)
(* TContainer::ApplyDynamicProperties: the properties of the cpu           *)
(* controller, the scheduler and the cpu set                               *)
(***************************************************************************)
CpuProps ==
    {"CPU_GUARANTEE", "CPU_LIMIT", "CPU_PERIOD", "CPU_POLICY", "CPU_WEIGHT",
     "CPU_SET"}

\* the calls that can end ApplyDynamicProperties with their error
CpuApplies ==
    {"ApplyCpuGuarantee", "ApplyCpuLimit", "ApplySchedPolicy", "DistributeCpus"}

\* a || b of two TestClearPropDirty calls: the second is made only when the
\* first returns false
TestClearEither(dirty, p, q) ==
    IF dirty[p] THEN TestClearPropDirty(dirty, p)
    ELSE TestClearPropDirty(dirty, q)

\* the part of ApplyDynamicProperties from CPU_GUARANTEE to CPU_SET on the
\* dirty bits of a container with parent; cpu: Controllers & CGROUP_CPU,
\* rejected: the calls that return an error
ApplyCpuProperties(dirty, cpu, rejected) ==
    LET d1 == IF cpu THEN TestClearPropDirty(dirty, "CPU_GUARANTEE") ELSE dirty
        guarantee == cpu /\ (dirty["CPU_PERIOD"] \/ dirty["CPU_GUARANTEE"])
        d2 == IF cpu
                THEN TestClearPropDirty(TestClearPropDirty(d1, "CPU_LIMIT"),
                                        "CPU_PERIOD")
                ELSE d1
        limit == cpu /\ (d1["CPU_POLICY"] \/ d1["CPU_WEIGHT"]
                           \/ d1["CPU_LIMIT"] \/ d1["CPU_PERIOD"])
        d3 == TestClearEither(d2, "CPU_POLICY", "CPU_WEIGHT")
        policy == d2["CPU_POLICY"] \/ d2["CPU_WEIGHT"]
        d4 == TestClearPropDirty(d3, "CPU_SET")
        cpuset == d3["CPU_SET"]
    IN  IF guarantee /\ "ApplyCpuGuarantee" \in rejected
          THEN [dirty |-> d1, error |-> "ApplyCpuGuarantee"]
        ELSE IF limit /\ "ApplyCpuLimit" \in rejected
          THEN [dirty |-> d2, error |-> "ApplyCpuLimit"]
        ELSE IF policy /\ "ApplySchedPolicy" \in rejected
          THEN [dirty |-> d3, error |-> "ApplySchedPolicy"]
        ELSE IF cpuset /\ "DistributeCpus" \in rejected
          THEN [dirty |-> d4, error |-> "DistributeCpus"]
        ELSE [dirty |-> d4, error |-> "OK"]

\* ApplyDynamicProperties is called on the live container a
ApplyCall(t) ==
    /\ setting[t].error = "none"
    /\ \E rejected \in SUBSET CpuApplies :
          LET applied == ApplyCpuProperties(PropDirty[CT_A], CpuController[CT_A],
                                            rejected)
          IN  /\ PropDirty' = [PropDirty EXCEPT ![CT_A] = applied.dirty]
              /\ setting' = [setting EXCEPT ![t].error = applied.error]
    /\ UNCHANGED <<State, lockVars, thr, ahead, op, frozen, isMeta, beforePause,
                   countVars, runVars, regVars, Controllers, NewMemGuarantee,
                   KvBroken, AccessLevel, nonPropVars, PropValue, Knob, KvProps,
                   CpuController>>

\* the container a runs, with or without the cpu controller and with any of
\* the properties dirty
ApplyInit ==
    /\ AccessLevel = [c \in CT |-> Normal]
    /\ NoCpus
    /\ NoEvents
    /\ NoSync
    /\ NoWaiters
    /\ Booted(<<[name |-> CT_A, id |-> 2, state |-> "Running", ok |-> TRUE]>>)
    /\ PropValue = [c \in CT |-> [p \in CpuProps |-> 0]]
    /\ Knob = [c \in CT |-> [p \in CpuProps |-> 0]]
    /\ KvProps = [c \in CT |-> [p \in CpuProps |-> 0]]
    /\ setting = [t \in Threads |-> NoSetting]
    /\ \E cpu \in BOOLEAN : CpuController = [c \in CT |-> cpu]
    /\ \E dirty \in [CpuProps -> BOOLEAN] :
          PropDirty = [c \in CT |-> IF c = CT_A THEN dirty
                                    ELSE [p \in CpuProps |-> FALSE]]

ApplyNext == \E t \in Workers : ApplyCall(t)

ApplySpec == ApplyInit /\ [][ApplyNext]_vars

\* C33: after ApplyDynamicProperties has returned OK none of the properties
\* it handles has its dirty bit set, whatever was dirty on entry and with or
\* without the cpu controller.
C33_NothingDirtyAfterOK ==
    \A t \in Workers :
        setting[t].error = "OK" => \A p \in CpuProps : ~PropDirty[CT_A][p]

\* C34: when Stop of a child that holds reserved CPUs has returned and its
\* parent is still live, the CPUs of the former reservation are members of
\* CpuVacant of the parent again.
C34_StopReleasesReserve ==
    [][\A c \in CpuCT \ {"/"} :
          (/\ CpuState[c] \in {"Running", "Meta"}
           /\ CpuState'[c] = "Stopped"
           /\ CpuLive(CpuState', CpuParent(c))
           /\ CpuReserve[c] # {})
              => CpuReserve[c] \subseteq CpuVacant'[CpuParent(c)]]_vars


\* SetProperty of cpu_set on the running container c, whose Controllers hold
\* CGROUP_CPUSET: the value is set and ApplyDynamicProperties has the parent
\* distribute its CPUs; when that fails the old value is set again
CpuSetProperty(c, set) ==
    /\ c # "/"
    /\ CpuState[c] = "Running"
    /\ CpusetEnabled[c]
    /\ <<set.type, set.arg>> # <<CpuSetType[c], CpuSetArg[c]>>
    /\ \E applied \in {DistributeCpus(CpuParent(c),
                           [CpuMaps EXCEPT !.Type[c] = set.type,
                                           !.Arg[c] = set.arg],
                           CpuState)} :
          /\ SetCpuMaps(applied)
          /\ IF applied.error = "OK"
               THEN /\ CpuSetType' = applied.Type
                    /\ CpuSetArg' = applied.Arg
               ELSE UNCHANGED <<CpuSetType, CpuSetArg>>
    /\ UNCHANGED <<CoreThreads, CpuState, CpusetEnabled, nonCpuFields>>

\* the containers whose cpu_set the clients change while they run
Reconfigured == {"a"}

CpusetNext ==
    \/ CpuNext
    \/ \E c \in Reconfigured, set \in CpuSets : CpuSetProperty(c, set)

\* the boot of CpuInit on the cores with adjacent numbers, with children of
\* a that inherit or reserve threads
CpusetInit ==
    /\ CpuInit
    /\ CoreThreads[0] = {0, 1}
    /\ \A c \in {"a/b", "a/c"} : CpuSetType[c] \in {"Inherit", "Threads"}

CpusetSpec == CpusetInit /\ [][CpusetNext]_vars

\* C32: every SetCpus write of the two passes of DistributeCpus keeps the
\* mask of each cpuset cgroup within the mask of the cgroup above it: the
\* mask written is within the mask above and holds the masks below
C32_WritesKeepSubset ==
    \A write \in CpusetWrites : Nested(write)

=============================================================================
